---- MODULE Spec2Model ----
(***************************************************************************)
(* Lamport one-time-key trackers and the wallet operations that sign with  *)
(* them (LamportWalletManager).                                            *)
(*                                                                         *)
(* Hex strings are records [v, pfx]: v is the term the string stands for   *)
(* (a sequence of naturals, so that hashing and packing are injective by   *)
(* construction, the idealisation of keccak256), pfx says whether the      *)
(* string carries the "0x" prefix.                                         *)
(***************************************************************************)
EXTENDS Integers, Sequences, FiniteSets, TLC

\* number of pairs of a Lamport key (256 in the source), scaled down
NBits == 2
\* largest amount passed to more / getN
MaxAmount == 2
\* number of tracker API calls made on the tracker under test
MaxCalls == 4
\* number of wallet operations started
MaxOps == 2
\* number of keys the helpers' tracker holds at the start
InitKeys == 2
\* number of recovery keys of call_setTenRecoveryPKHs (10 in the source), scaled down
NBackup == 1

RECURSIVE Pow2(_)
Pow2(n) == IF n = 0 THEN 1 ELSE 2 * Pow2(n - 1)

Min(a, b) == IF a < b THEN a ELSE b

\* sum of s[lo..hi], by halving
RECURSIVE SumRange(_, _, _)
SumRange(s, lo, hi) ==
    IF lo > hi THEN 0
    ELSE IF lo = hi THEN s[lo]
    ELSE LET mid == (lo + hi) \div 2
         IN  SumRange(s, lo, mid) + SumRange(s, mid + 1, hi)

(***************************************************************************)
(* HashPrimitives                                                          *)
(***************************************************************************)
\* `0x${s}` applied when s does not start with 0x
With0x(s) == [s EXCEPT !.pfx = TRUE]

\* s.substring(2) / dropFirstTwoChars on a prefixed string
substring2(s) == [s EXCEPT !.pfx = FALSE]

\* ethers.utils.randomBytes(32): draw number <<k, i, b>> of the RNG
randomBytes(k, i, b) == [v |-> <<1, k, i, b>>, pfx |-> TRUE]

\* the value keccak256 is given when its argument is not 0x-prefixed hex
\* (ethers rejects it): equal to no digest
HashError == [v |-> <<0>>, pfx |-> FALSE]

\* ethers.utils.keccak256 of hex data
hash_b(input) ==
    IF input.pfx THEN [v |-> <<2>> \o input.v, pfx |-> TRUE] ELSE HashError

\* keccak256(toUtf8Bytes(input)): hashes the characters of any string
hash(input) == [v |-> <<2, 4>> \o input.v, pfx |-> TRUE]

\* ethers.utils.solidityPack of a list of hex fields
RECURSIVE PackBody(_)
PackBody(fields) ==
    IF fields = <<>> THEN <<>>
    ELSE <<Len(Head(fields).v)>> \o Head(fields).v \o PackBody(Tail(fields))

solidityPack(fields) == [v |-> <<3>> \o PackBody(fields), pfx |-> TRUE]

\* a decimal string or a small number given as a uint256 / bytes4 field
Word(n) == [v |-> <<5, n>>, pfx |-> TRUE]

\* COMBINE(a, b) = solidityPack(['uint256', 'uint256'], [a, b])
COMBINE(a, index) == solidityPack(<<a, Word(index)>>)

HASH(a) == hash_b(a)

\* GENERATE_INITIAL_SECRET(): keccak256 of the hex text of a random draw
GENERATE_INITIAL_SECRET(k) == hash(randomBytes(k, 0, 0))

\* numeric value of a digest, reduced to NBits bits
HexValue(h) == SumRange(h.v, 1, Len(h.v)) % Pow2(NBits)

\* the bits of the message hash written least significant bit first
msg_hash_binLsbFirst(hmsg) ==
    LET n == HexValue(hmsg)
    IN  [i \in 1..NBits |-> (n \div Pow2(i - 1)) % 2]

\* new BigNumber(hmsg, 16).toString(2).padStart(256, '0'): MSB first
msg_hash_bin(hmsg) ==
    LET n == HexValue(hmsg)
    IN  [i \in 1..NBits |-> (n \div Pow2(NBits - i)) % 2]

(***************************************************************************)
(* LamportCore                                                             *)
(***************************************************************************)
pubFromPri(pri) ==
    [i \in 1..Len(pri) |-> <<hash_b(pri[i][1]), hash_b(pri[i][2])>>]

RECURSIVE FlattenPub(_)
FlattenPub(pub) ==
    IF pub = <<>> THEN <<>>
    ELSE <<Head(pub)[1], Head(pub)[2]>> \o FlattenPub(Tail(pub))

\* keccak256(solidityPack(['bytes32[2][256]'], [pub]))
pkhFromPublicKey(pub) == hash_b(solidityPack(FlattenPub(pub)))

\* mk_rand_num(): hash(hex text of a random draw).substring(2)
mk_rand_num(k, i, b) == substring2(hash(randomBytes(k, i, b)))

\* the k-th call of mk_key_pair()
mk_key_pair(k) ==
    LET pri == [i \in 1..NBits |-> <<mk_rand_num(k, i, 0), mk_rand_num(k, i, 1)>>]
    IN  [pri |-> pri,
         pub |-> pubFromPri([i \in 1..NBits |-> <<With0x(pri[i][1]), With0x(pri[i][2])>>])]

is_private_key(key) == Len(key) = NBits

\* a sign_hash that reveals, for every bit, the half the bit does not select
sign_hashOtherHalf(hmsg, pri) ==
    IF ~is_private_key(pri) THEN <<>>
    ELSE LET bits == msg_hash_bin(hmsg)
         IN  [i \in 1..NBits |-> pri[i][2 - bits[i]]]

\* sign_hash: element i is pri[i][bit i]; <<>> stands for the thrown error
sign_hash(hmsg, pri) ==
    IF ~is_private_key(pri) THEN <<>>
    ELSE LET bits == msg_hash_bin(hmsg)
         IN  [i \in 1..NBits |-> pri[i][bits[i] + 1]]

\* a verification that compares the first element only
verify_signed_hashFirstOnly(hmsg, sig_, pub) ==
    LET bits == msg_hash_bin(hmsg)
    IN  /\ Len(sig_) >= 1
        /\ pub[1][bits[1] + 1] = hash_b(With0x(sig_[1]))

verify_signed_hash(hmsg, sig_, pub) ==
    LET bits == msg_hash_bin(hmsg)
        pub_selection == [i \in 1..NBits |-> pub[i][bits[i] + 1]]
        sig == [i \in 1..Len(sig_) |-> With0x(sig_[i])]
    IN  /\ Len(sig) >= NBits
        /\ \A i \in 1..NBits : pub_selection[i] = hash_b(sig[i])

(***************************************************************************)
(* Derivation of the compressed and the seeded tracker                     *)
(***************************************************************************)
\* the expansion mk_compressed_key_pair runs on the secret it generated
expandSecret(secret) ==
    LET intermediate_secrets == [j \in 1..(2 * NBits) |-> HASH(COMBINE(secret, j - 1))]
        pri == [i \in 1..NBits |->
                   <<intermediate_secrets[2 * i - 1], intermediate_secrets[2 * i]>>]
        pub == pubFromPri(pri)
    IN  [pri |-> pri, pub |-> pub, secret |-> secret, pkh |-> pkhFromPublicKey(pub)]

\* the k-th call of mk_compressed_key_pair()
mk_compressed_key_pair(k) == expandSecret(GENERATE_INITIAL_SECRET(k))

compressLamport(keyPair) == [secret |-> keyPair.secret, pkh |-> keyPair.pkh]

\* an uncompressLamport without step 5, the comparison of the pkh
uncompressLamportUnchecked(compressed) ==
    LET k == expandSecret(compressed.secret)
    IN  [ok |-> TRUE,
         key |-> [pri |-> k.pri, pub |-> k.pub,
                  secret |-> compressed.secret, pkh |-> compressed.pkh]]

\* an uncompressLamport that zips the odd-indexed secrets to the left
uncompressLamportSwapped(compressed) ==
    LET intermediate_secrets ==
            [j \in 1..(2 * NBits) |-> HASH(COMBINE(compressed.secret, j - 1))]
        pri == [i \in 1..NBits |->
                   <<intermediate_secrets[2 * i], intermediate_secrets[2 * i - 1]>>]
        pub == pubFromPri(pri)
    IN  [ok |-> pkhFromPublicKey(pub) = compressed.pkh,
         key |-> [pri |-> pri, pub |-> pub,
                  secret |-> compressed.secret, pkh |-> compressed.pkh]]

\* uncompressLamport: ok is FALSE when 'Public Key Hash Does Not Match Secret';
\* key is {...compressed, pri, pub}
uncompressLamport(compressed) ==
    LET intermediate_secrets ==
            [j \in 1..(2 * NBits) |-> HASH(COMBINE(compressed.secret, j - 1))]
        leftIntermediateSecrets == [i \in 1..NBits |-> intermediate_secrets[2 * i - 1]]
        rightIntermediateSecrets == [i \in 1..NBits |-> intermediate_secrets[2 * i]]
        pri == [i \in 1..NBits |->
                   <<leftIntermediateSecrets[i], rightIntermediateSecrets[i]>>]
        pub == pubFromPri(pri)
        pkh == pkhFromPublicKey(pub)
    IN  [ok |-> pkh = compressed.pkh,
         key |-> [pri |-> pri, pub |-> pub,
                  secret |-> compressed.secret, pkh |-> compressed.pkh]]

\* a derivation from seed and nonce that numbers the intermediate secrets from 1
mk_compressed_key_pair_from_seed_and_nonceFromOne(seed, nonce) ==
    LET secret == HASH(COMBINE(seed, nonce))
        intermediate_secrets == [j \in 1..(2 * NBits) |-> HASH(COMBINE(secret, j))]
        pri == [i \in 1..NBits |->
                   <<intermediate_secrets[2 * i - 1], intermediate_secrets[2 * i]>>]
        pub == pubFromPri(pri)
    IN  [pri |-> pri, pub |-> pub, secret |-> secret, pkh |-> pkhFromPublicKey(pub)]

mk_compressed_key_pair_from_seed_and_nonce(seed, nonce) ==
    LET secret == HASH(COMBINE(seed, nonce))
        intermediate_secrets == [j \in 1..(2 * NBits) |-> HASH(COMBINE(secret, j - 1))]
        leftIntermediateSecrets == [i \in 1..NBits |-> intermediate_secrets[2 * i - 1]]
        rightIntermediateSecrets == [i \in 1..NBits |-> intermediate_secrets[2 * i]]
        pri == [i \in 1..NBits |->
                   <<leftIntermediateSecrets[i], rightIntermediateSecrets[i]>>]
        pub == pubFromPri(pri)
        pkh == pkhFromPublicKey(pub)
    IN  [pri |-> pri, pub |-> pub, secret |-> secret, pkh |-> pkh]

(***************************************************************************)
(* The trackers.  Every operation yields the tracker after the call (t),   *)
(* the keys returned (ret), the message of the error thrown (err, "" when  *)
(* the call returned) and the number of RNG-backed generations so far.     *)
(***************************************************************************)
NoError == ""
NoKeysLeft == "No keys left"
HashMismatch == "Public Key Hash Does Not Match Secret"

Result(t, ret, err, fresh) == [t |-> t, ret |-> ret, err |-> err, fresh |-> fresh]

\* new KeyTrackerA()
KeyTrackerA == [kind |-> "A", keys |-> <<>>]

A_more(t, amount, fresh) ==
    LET keys == [i \in 1..amount |-> mk_key_pair(fresh + i)]
    IN  Result([t EXCEPT !.keys = @ \o keys], keys, NoError, fresh + amount)


\* getOne that takes the key at the back of the queue (pop instead of shift)
A_getOneFromBack(t, fresh) ==
    IF t.keys = <<>> THEN Result(t, <<>>, NoKeysLeft, fresh)
    ELSE Result([t EXCEPT !.keys = SubSeq(@, 1, Len(@) - 1)],
                <<t.keys[Len(t.keys)]>>, NoError, fresh)

A_getOne(t, fresh) ==
    IF t.keys = <<>> THEN Result(t, <<>>, NoKeysLeft, fresh)
    ELSE Result([t EXCEPT !.keys = Tail(@)], <<Head(t.keys)>>, NoError, fresh)

\* this.keys.splice(0, amount)
A_getN(t, amount, fresh) ==
    LET n == Min(amount, Len(t.keys))
    IN  Result([t EXCEPT !.keys = SubSeq(@, n + 1, Len(@))],
               SubSeq(t.keys, 1, n), NoError, fresh)

\* new KeyTrackerB()
KeyTrackerB == [kind |-> "B", keys |-> <<>>]


\* more that puts the new keys at the front of the queue
B_moreAtFront(t, amount, fresh) ==
    LET keys == [i \in 1..amount |-> mk_compressed_key_pair(fresh + i)]
        asCompressed == [i \in 1..amount |-> compressLamport(keys[i])]
    IN  Result([t EXCEPT !.keys = asCompressed \o @], keys, NoError, fresh + amount)

B_more(t, amount, fresh) ==
    LET keys == [i \in 1..amount |-> mk_compressed_key_pair(fresh + i)]
        asCompressed == [i \in 1..amount |-> compressLamport(keys[i])]
    IN  Result([t EXCEPT !.keys = @ \o asCompressed], keys, NoError, fresh + amount)

\* getOne that checks the front record before removing it
B_getOneChecksFirst(t, fresh) ==
    IF t.keys = <<>> THEN Result(t, <<>>, NoKeysLeft, fresh)
    ELSE LET u == uncompressLamport(Head(t.keys))
         IN  IF u.ok THEN Result([t EXCEPT !.keys = Tail(@)], <<u.key>>, NoError, fresh)
             ELSE Result(t, <<>>, HashMismatch, fresh)

B_getOne(t, fresh) ==
    IF t.keys = <<>> THEN Result(t, <<>>, NoKeysLeft, fresh)
    ELSE LET u == uncompressLamport(Head(t.keys))
             rest == [t EXCEPT !.keys = Tail(@)]
         IN  IF u.ok THEN Result(rest, <<u.key>>, NoError, fresh)
             ELSE Result(rest, <<>>, HashMismatch, fresh)

B_getN(t, amount, fresh) ==
    LET n == Min(amount, Len(t.keys))
        us == [i \in 1..n |-> uncompressLamport(t.keys[i])]
        rest == [t EXCEPT !.keys = SubSeq(@, n + 1, Len(@))]
    IN  IF \A i \in 1..n : us[i].ok
        THEN Result(rest, [i \in 1..n |-> us[i].key], NoError, fresh)
        ELSE Result(rest, <<>>, HashMismatch, fresh)

\* new KeyTrackerC(): the seed is the (fresh + 1)-th generation
KeyTrackerC(fresh) ==
    [kind |-> "C", seed |-> GENERATE_INITIAL_SECRET(fresh + 1), nonce |-> 0, count |-> 0]


\* more that reads this.nonce after incrementing it
C_moreNonceAhead(t, amount, fresh) ==
    LET keys == [i \in 1..amount |->
                    mk_compressed_key_pair_from_seed_and_nonce(t.seed, t.nonce + i)]
    IN  Result([t EXCEPT !.nonce = @ + amount, !.count = @ + amount],
               keys, NoError, fresh)

C_more(t, amount, fresh) ==
    LET keys == [i \in 1..amount |->
                    mk_compressed_key_pair_from_seed_and_nonce(t.seed, t.nonce + i - 1)]
    IN  Result([t EXCEPT !.nonce = @ + amount, !.count = @ + amount],
               keys, NoError, fresh)

\* getOne that forgets this._count -= 1
C_getOneKeepsCount(t, fresh) ==
    LET nonceToUse == t.nonce - t.count
        key == mk_compressed_key_pair_from_seed_and_nonce(t.seed, nonceToUse)
    IN  Result(t, <<key>>, NoError, fresh)


\* getOne that takes the newest key (nonce - 1) instead of the oldest undelivered
C_getOneNewest(t, fresh) ==
    LET nonceToUse == t.nonce - 1
        key == mk_compressed_key_pair_from_seed_and_nonce(t.seed, nonceToUse)
    IN  Result([t EXCEPT !.count = @ - 1], <<key>>, NoError, fresh)

C_getOne(t, fresh) ==
    LET nonceToUse == t.nonce - t.count
        key == mk_compressed_key_pair_from_seed_and_nonce(t.seed, nonceToUse)
    IN  Result([t EXCEPT !.count = @ - 1], <<key>>, NoError, fresh)

\* Array.from({ length: amount }, () => this.getOne())
C_getN(t, amount, fresh) ==
    LET keys == [i \in 1..amount |->
                    mk_compressed_key_pair_from_seed_and_nonce(
                        t.seed, t.nonce - t.count + i - 1)]
    IN  Result([t EXCEPT !.count = @ - amount], keys, NoError, fresh)

\* the fields of a KeyTrackerC as they are written out: seed, nonce, _count
persisted(t) == <<t.seed, t.nonce, t.count>>

\* a KeyTrackerC built anew, its fields then set from a persisted triple
rebuilt(triple, fresh) ==
    Result([KeyTrackerC(fresh) EXCEPT !.seed = triple[1], !.nonce = triple[2],
                                      !.count = triple[3]],
           <<>>, NoError, fresh + 1)

\* count of a KeyTrackerA, KeyTrackerB or KeyTrackerC
childCount(t) == IF t.kind = "C" THEN t.count ELSE Len(t.keys)

\* !k.exhausted for a child k: only KeyTrackerC defines the getter; on a
\* KeyTrackerA or KeyTrackerB the property is undefined and !undefined is true
notExhausted(k) == IF k.kind = "C" THEN k.count # 0 ELSE TRUE

childGetOne(t, fresh) ==
    CASE t.kind = "A" -> A_getOne(t, fresh)
      [] t.kind = "B" -> B_getOne(t, fresh)
      [] t.kind = "C" -> C_getOne(t, fresh)

childGetN(t, amount, fresh) ==
    CASE t.kind = "A" -> A_getN(t, amount, fresh)
      [] t.kind = "B" -> B_getN(t, amount, fresh)
      [] t.kind = "C" -> C_getN(t, amount, fresh)

childMore(t, amount, fresh) ==
    CASE t.kind = "A" -> A_more(t, amount, fresh)
      [] t.kind = "B" -> B_more(t, amount, fresh)
      [] t.kind = "C" -> C_more(t, amount, fresh)

\* new MultiSourceKeyTracker()
MultiSourceKeyTracker == [kind |-> "M", keyTrackers |-> <<>>]

RECURSIVE SumCounts(_)
SumCounts(kts) ==
    IF kts = <<>> THEN 0 ELSE childCount(Head(kts)) + SumCounts(Tail(kts))


\* a count that looks at the newest child only
M_countOfNewest(t) ==
    IF t.keyTrackers = <<>> THEN 0
    ELSE childCount(t.keyTrackers[Len(t.keyTrackers)])

M_count(t) == SumCounts(t.keyTrackers)

M_exhausted(t) == M_count(t) = 0

\* this.keyTrackers.find(k => !k.exhausted): its position, 0 when undefined
findNotExhausted(kts) ==
    IF \E i \in 1..Len(kts) : notExhausted(kts[i])
    THEN CHOOSE i \in 1..Len(kts) :
             /\ notExhausted(kts[i])
             /\ \A j \in 1..(i - 1) : ~notExhausted(kts[j])
    ELSE 0

M_getOne(t, fresh) ==
    LET i == findNotExhausted(t.keyTrackers)
    IN  IF i = 0 THEN Result(t, <<>>, NoKeysLeft, fresh)
        ELSE LET r == childGetOne(t.keyTrackers[i], fresh)
             IN  Result([t EXCEPT !.keyTrackers[i] = r.t], r.ret, r.err, r.fresh)


\* getN that moves on to the next child for the keys the selected child lacks
M_getNSpilling(t, amount, fresh) ==
    LET i == findNotExhausted(t.keyTrackers)
    IN  IF i = 0 THEN Result(t, <<>>, NoKeysLeft, fresh)
        ELSE LET r == childGetN(t.keyTrackers[i], amount, fresh)
                 short == amount - Len(r.ret)
             IN  IF short > 0 /\ i < Len(t.keyTrackers)
                 THEN LET r2 == childGetN(t.keyTrackers[i + 1], short, r.fresh)
                      IN  Result([t EXCEPT !.keyTrackers[i] = r.t,
                                           !.keyTrackers[i + 1] = r2.t],
                                 r.ret \o r2.ret, r2.err, r2.fresh)
                 ELSE Result([t EXCEPT !.keyTrackers[i] = r.t], r.ret, r.err, r.fresh)

M_getN(t, amount, fresh) ==
    LET i == findNotExhausted(t.keyTrackers)
    IN  IF i = 0 THEN Result(t, <<>>, NoKeysLeft, fresh)
        ELSE LET r == childGetN(t.keyTrackers[i], amount, fresh)
             IN  Result([t EXCEPT !.keyTrackers[i] = r.t], r.ret, r.err, r.fresh)

moreTypeA(t, amount, fresh) ==
    LET r == A_more(KeyTrackerA, amount, fresh)
    IN  Result([t EXCEPT !.keyTrackers = Append(@, r.t)], r.ret, r.err, r.fresh)

moreTypeB(t, amount, fresh) ==
    LET r == B_more(KeyTrackerB, amount, fresh)
    IN  Result([t EXCEPT !.keyTrackers = Append(@, r.t)], r.ret, r.err, r.fresh)

moreTypeC(t, amount, fresh) ==
    LET r == C_more(KeyTrackerC(fresh), amount, fresh + 1)
    IN  Result([t EXCEPT !.keyTrackers = Append(@, r.t)], r.ret, r.err, r.fresh)


\* more that refills the newest child when it is a KeyTrackerA
M_moreIntoNewest(t, amount, fresh) ==
    LET n == Len(t.keyTrackers)
    IN  IF n > 0 /\ t.keyTrackers[n].kind = "A"
        THEN LET r == A_more(t.keyTrackers[n], amount, fresh)
             IN  Result([t EXCEPT !.keyTrackers[n] = r.t], r.ret, r.err, r.fresh)
        ELSE moreTypeA(t, amount, fresh)

M_more(t, amount, fresh) == moreTypeA(t, amount, fresh)

\* the uniform surface {count, more, getOne, getN} over the four kinds
count(t) == IF t.kind = "M" THEN M_count(t) ELSE childCount(t)

more(t, amount, fresh) ==
    IF t.kind = "M" THEN M_more(t, amount, fresh) ELSE childMore(t, amount, fresh)

getOne(t, fresh) ==
    IF t.kind = "M" THEN M_getOne(t, fresh) ELSE childGetOne(t, fresh)

getN(t, amount, fresh) ==
    IF t.kind = "M" THEN M_getN(t, amount, fresh) ELSE childGetN(t, amount, fresh)

\* every child of a MultiSourceKeyTracker holds no key (vacuous for others)
allChildrenEmpty(t) ==
    t.kind = "M" => \A i \in 1..Len(t.keyTrackers) : childCount(t.keyTrackers[i]) = 0

(***************************************************************************)
(* The sequential tracker (KeyTracker): peekable current and next keys.    *)
(***************************************************************************)
NoKey == [pri |-> <<>>, pub |-> <<>>]

\* new KeyTracker()
KeyTracker == [kind |-> "K", cur |-> NoKey, nxt |-> NoKey]

\* peek of the next unused key; drawn once, then cached
currentKeyPair(t, fresh) ==
    IF t.cur = NoKey
    THEN Result([t EXCEPT !.cur = mk_key_pair(fresh + 1)],
                <<mk_key_pair(fresh + 1)>>, NoError, fresh + 1)
    ELSE Result(t, <<t.cur>>, NoError, fresh)

\* peek of the key that becomes current after advance(); drawn once, cached
getNextKeyPair(t, fresh) ==
    IF t.nxt = NoKey
    THEN Result([t EXCEPT !.nxt = mk_key_pair(fresh + 1)],
                <<mk_key_pair(fresh + 1)>>, NoError, fresh + 1)
    ELSE Result(t, <<t.nxt>>, NoError, fresh)

\* consume current, promote next; the successor is drawn at its next peek
advance(t, fresh) ==
    LET n == getNextKeyPair(t, fresh)
    IN  Result([n.t EXCEPT !.cur = n.t.nxt, !.nxt = NoKey], <<>>, NoError, n.fresh)

\* get pkh()
K_pkh(t) == pkhFromPublicKey(t.cur.pub)

\* what lamport_getCurrentAndNextKeyData returns, given the results c of
\* k.currentKeyPair() and n of k.getNextKeyPair(); k and fresh are the tracker
\* and the RNG position after the two calls
keyData(c, n) ==
    [k |-> n.t, fresh |-> n.fresh,
     current_keys |-> c.ret[1],
     next_keys |-> n.ret[1],
     nextpkh |-> pkhFromPublicKey(n.ret[1].pub),
     currentpkh |-> pkhFromPublicKey(c.ret[1].pub)]

\* k.getNextKeyPair(), called after k.currentKeyPair() gave c
thenNextKeyPair(c) == keyData(c, getNextKeyPair(c.t, c.fresh))

\* a reading that pulls the keys out of the tracker instead of peeking
lamport_takeCurrentAndNextKeyData(k, fresh) ==
    [thenNextKeyPair(currentKeyPair(k, fresh)) EXCEPT !.k = KeyTracker]

lamport_getCurrentAndNextKeyData(k, fresh) == thenNextKeyPair(currentKeyPair(k, fresh))

(***************************************************************************)
(* Signing steps of the wallet operations (the synchronous code between    *)
(* two awaits).  x stands for the caller's arguments of the operation.     *)
(***************************************************************************)
NoHex == [v |-> <<>>, pfx |-> FALSE]

\* sig.map(s => `0x${s}`): prefixes unconditionally
Prefix0x(s) == IF s.pfx THEN [v |-> <<7>> \o s.v, pfx |-> TRUE] ELSE With0x(s)

\* convertSignatureForSolidity: prefixes the elements that lack the prefix
convertSignatureForSolidity(signature) ==
    [i \in 1..Len(signature) |-> With0x(signature[i])]

\* buildCallData: the ABI-encoded call bundle for arguments x
buildCallData(x) == [v |-> <<6, x>>, pfx |-> TRUE]

\* getSelector(contract, functionName)
getSelector(functionName) ==
    CASE functionName = "addNKeys" -> [v |-> <<8, 1>>, pfx |-> TRUE]
      [] functionName = "setDetail" -> [v |-> <<8, 2>>, pfx |-> TRUE]
      [] functionName = "endorseMessage" -> [v |-> <<8, 3>>, pfx |-> TRUE]
      [] functionName = "endorsePublicKeyHash" -> [v |-> <<8, 4>>, pfx |-> TRUE]
      [] functionName = "sendEtherFromContract" -> [v |-> <<8, 5>>, pfx |-> TRUE]

\* the part shared by the LamportWalletManager operations: sign callhash =
\* hash_b(solidityPack(['bytes', 'bytes32'], [data, nextpkh])) with the
\* current key and self-check the signature
\*   is_valid_sig = verify_signed_hash(callhash, sig, current_keys.pub)
\*   and the arguments handed on: sig.map(s => `0x${s}`)
selfChecked(d, data, callhash, sig) ==
    [k |-> d.k, fresh |-> d.fresh,
     ok |-> verify_signed_hash(callhash, sig, d.current_keys.pub),
     key |-> d.current_keys, data |-> data, nextpkh |-> d.nextpkh,
     hash |-> callhash, sig |-> [i \in 1..Len(sig) |-> Prefix0x(sig[i])]]

\*   sig = sign_hash(callhash, current_keys.pri)
signCallhash(d, data, callhash) ==
    selfChecked(d, data, callhash, sign_hash(callhash, d.current_keys.pri))

\*   packed = solidityPack(['bytes', 'bytes32'], [data, nextpkh])
\*   callhash = hash_b(packed)
\* signing that leaves nextpkh out of the packed bytes
signKeyDataUnbound(d, data) ==
    signCallhash(d, data, hash_b(solidityPack(<<data>>)))

signKeyData(d, data) ==
    signCallhash(d, data, hash_b(solidityPack(<<data, d.nextpkh>>)))

signWithCurrent(k, data, fresh) ==
    signKeyData(lamport_getCurrentAndNextKeyData(k, fresh), data)

buildExecuteArguments(k, x, fresh) == signWithCurrent(k, buildCallData(x), fresh)

\* call_sendEther / call_sendEtherWithManualGas up to the self-check
sendEtherArguments(k, x, fresh) ==
    signWithCurrent(k, solidityPack(<<Word(1), Word(x)>>), fresh)

\* call_setTenRecoveryPKHs up to the self-check
setTenArguments(k, tenKeys, fresh) ==
    LET tenPKHs == [i \in 1..Len(tenKeys) |-> pkhFromPublicKey(tenKeys[i].pub)]
    IN  signWithCurrent(k, solidityPack(tenPKHs), fresh)

\* a reading of the signing key that leaves it in the tracker
signingKeysPutBack(t, drawn) == [getOne(t, drawn) EXCEPT !.t = t]

\* const signingKeys = keys.getOne()
signingKeysOf(t, drawn) == getOne(t, drawn)

\* new keys that are generated but not kept in the tracker
moreNotKept(t, n, drawn) == [more(t, n, drawn) EXCEPT !.t = t]

\* const keyPairsToAdd = keys.more(n)
keysMore(t, n, drawn) == more(t, n, drawn)

\* a key check that never throws
checkValidPublicKeySkipped(signingKeys, isRedeemable) == TRUE

\* checkValidPublicKey(signingKeys, contract): FALSE when it throws 'Invalid
\* signing key'; isRedeemable is the set of pkhs the contract answers true for
checkValidPublicKey(signingKeys, isRedeemable) ==
    pkhFromPublicKey(signingKeys.pub) \in isRedeemable

\* a check that never throws
checkSignatureSkipped(publicKey, hashToSign, signature) == TRUE

\* checkSignature(publicKey)(hashToSign)(signature): FALSE when it throws
checkSignature(publicKey, hashToSign, signature) ==
    verify_signed_hash(hashToSign, signature, publicKey)

\* the bytes a helpers operation hashes: its arguments and its selector
helperData(op, x, keyPairsToAdd) ==
    CASE op = "addNKeys" ->
             solidityPack([i \in 1..Len(keyPairsToAdd) |->
                              pkhFromPublicKey(keyPairsToAdd[i].pub)]
                          \o <<getSelector(op)>>)
      [] op = "setDetail" -> solidityPack(<<Word(1), Word(x), getSelector(op)>>)
      [] op = "endorseMessage" ->
             solidityPack(<<hash_b(solidityPack(<<Word(x)>>)), getSelector(op)>>)
      [] op = "endorsePublicKeyHash" ->
             solidityPack(<<Word(1), Word(1), Word(x), getSelector(op)>>)
      [] op = "sendEtherFromContract" ->
             solidityPack(<<Word(1), Word(x), getSelector(op)>>)

\* hashToSign.bind(sign).bind(checkSignature).bind(convertSignatureForSolidity)
\* .bind(checkSignature(signingKeys.pub)(hashToSign))
\* .bind(convertSignatureForSolidity)
helperChecked(signingKeys, data, hashToSign, signature) ==
    [ok |-> checkSignature(signingKeys.pub, hashToSign, signature),
     data |-> data, hash |-> hashToSign,
     sig |-> convertSignatureForSolidity(signature)]

\* .bind(signHashWithMonadAndCurry(signingKeys.pri))
helperSigned(signingKeys, data, hashToSign) ==
    helperChecked(signingKeys, data, hashToSign,
                  sign_hash(hashToSign, signingKeys.pri))

\* .bind(hashBWithMonad)
helperHashed(signingKeys, data) == helperSigned(signingKeys, data, hash_b(data))

\* the chain packed.bind(hashBWithMonad).bind(sign).bind(check).bind(convert)
helperSign(op, x, signingKeys, keyPairsToAdd) ==
    helperHashed(signingKeys, helperData(op, x, keyPairsToAdd))

(***************************************************************************)
(* The ledger: the wallet contract trusts one pkh and adopts the submitted *)
(* nextpkh when it accepts; the pool contract keeps the redeemable pkhs.   *)
(***************************************************************************)
walletAccepts(trusted, data, pub, nextpkh, sig) ==
    /\ pkhFromPublicKey(pub) = trusted
    /\ verify_signed_hash(hash_b(solidityPack(<<data, nextpkh>>)), sig, pub)

poolAccepts(redeemableSet, data, pub, sig) ==
    /\ pkhFromPublicKey(pub) \in redeemableSet
    /\ verify_signed_hash(hash_b(data), sig, pub)


(***************************************************************************)
(* State                                                                   *)
(***************************************************************************)
VARIABLES
    tracker,    \* the tracker whose API is exercised
    fresh,      \* number of RNG-backed generations made so far
    ncalls,     \* number of API calls made on tracker
    issued,     \* the private keys of the pairs getOne / getN returned, in order
    peeked,     \* keys the current / next peeks returned since the last advance
    last,       \* the last API call: name, count before it, result (of a
                \* more / getOne / getN: the private keys of the pairs returned)
    made,       \* the key pairs more / moreTypeX returned inline, in order
    got,        \* the key pairs getOne / getN returned, in order
    sigcheck,   \* a signature round trip: key pair, message hash, signature, verdict
    deriv,      \* a derivation under way: its inputs and the keys derived so far
    saved,      \* the fields of the seeded tracker as last written out
    recoveryPKHs, \* the recovery pkhs the wallet contract lists
    kt,         \* state.kt, the wallet's sequential tracker
    keys,       \* the tracker handed to the helpers operations
    gasPayer,   \* whether getGasPayer() finds a gas payer
    backup_keys,\* state.backup_keys
    tx_hashes,  \* state.tx_hashes
    proc,       \* the wallet operations in flight, one per slot
    started,    \* number of wallet operations started
    trustedPkh, \* the pkh the wallet contract trusts
    redeemable, \* the pkhs the pool contract holds as redeemable
    signed,     \* every (private key, message hash) given to sign_hash
    family,     \* which operations run: the manager's or the helpers'
    burnt,      \* private keys whose signature reached the ledger in an
                \* operation that then failed
    overlap,    \* whether two operations were ever in flight together
    friends     \* state.friends

tvars == <<tracker, fresh, ncalls, issued, peeked, last, made, got>>

wvars == <<kt, keys, gasPayer, backup_keys, tx_hashes, proc, started, trustedPkh,
           redeemable, signed, family, burnt, overlap, friends>>

vars == <<tracker, fresh, ncalls, issued, peeked, last, made, got, sigcheck,
          deriv, saved, recoveryPKHs, kt, keys, gasPayer, backup_keys, tx_hashes, proc, started, trustedPkh,
          redeemable, signed, family, burnt, overlap, friends>>

\* what the wallet operations leave alone
tframe == <<tracker, ncalls, issued, peeked, last, made, got, sigcheck, deriv,
           saved, recoveryPKHs, family, friends>>

xframe == <<tracker, ncalls, issued, peeked, last, made, got, sigcheck, deriv,
            saved, family, friends>>

Amounts == 1..MaxAmount

NoCall == [op |-> "none", amount |-> 0, countBefore |-> 0, emptyBefore |-> FALSE,
           ret |-> <<>>, err |-> NoError]

\* the private keys of a sequence of key pairs
priOf(keyPairs) == [i \in 1..Len(keyPairs) |-> keyPairs[i].pri]

\* a call op(amount) made on tracker t, with its outcome r
Call(op, amount, t, r) ==
    [op |-> op, amount |-> amount, countBefore |-> count(t),
     emptyBefore |-> allChildrenEmpty(t), ret |-> priOf(r.ret), err |-> r.err]

\* no derivation under way.  secret is the secret expanded; when seeded it is
\* what (seed, nonce) hash to.  expanded, rec, restored, derived, rederived
\* hold at most one value each: the result of the call once it was made
NoDeriv ==
    [secret |-> NoHex, seeded |-> FALSE, seed |-> NoHex, nonce |-> 0,
     expanded |-> <<>>, rec |-> <<>>, restored |-> <<>>,
     derived |-> <<>>, rederived |-> <<>>]

\* nothing written out yet.  rec is the record written out; at is the number
\* of keys the tracker had delivered when it was written
NoneSaved == [rec |-> <<>>, at |-> 0]

\* no signature round trip under way
\* h, sig: the hash signed and the signature made; hv, sigv: the hash and the
\* signature handed to verify_signed_hash; alt: what was altered in between
NoCheck ==
    [stage |-> "none", kp |-> NoKey, h |-> NoHex, sig |-> <<>>, ok |-> FALSE,
     hv |-> NoHex, sigv |-> <<>>, alt |-> "none"]

RECURSIVE SeqToSet(_)
SeqToSet(s) == IF s = <<>> THEN {} ELSE {Head(s)} \cup SeqToSet(Tail(s))

TInit ==
    /\ tracker \in {KeyTrackerA, KeyTrackerB, KeyTrackerC(0),
                    MultiSourceKeyTracker, KeyTracker}
    /\ fresh = 1
    /\ ncalls = 0
    /\ issued = <<>>
    /\ peeked = [cur |-> {}, nxt |-> {}]
    /\ last = NoCall
    /\ made = <<>>
    /\ got = <<>>
    /\ sigcheck = NoCheck
    /\ deriv = NoDeriv
    /\ saved = NoneSaved
    /\ recoveryPKHs = <<>>
    /\ kt = KeyTracker
    /\ keys = KeyTrackerA
    /\ gasPayer = FALSE
    /\ backup_keys = <<>>
    /\ tx_hashes = <<>>
    /\ proc = <<>>
    /\ started = 0
    /\ trustedPkh = NoHex
    /\ redeemable = {}
    /\ signed = {}
    /\ family = "none"
    /\ burnt = {}
    /\ overlap = FALSE
    /\ friends = <<>>

IsPool == tracker.kind \in {"A", "B", "C", "M"}

\* tracker.more(amount)
More(amount) ==
    /\ IsPool /\ ncalls < MaxCalls
    /\ \E r \in {more(tracker, amount, fresh)} :
           /\ tracker' = r.t
           /\ fresh' = r.fresh
           /\ made' = made \o r.ret
           /\ last' = Call("more", amount, tracker, r)
    /\ ncalls' = ncalls + 1
    /\ UNCHANGED <<issued, peeked, got>>
    /\ UNCHANGED <<wvars, sigcheck, deriv, saved, recoveryPKHs>>

\* mskt.moreTypeB / moreTypeC(amount); mskt.moreTypeA(amount) is what
\* mskt.more(amount) runs
MoreType(kind, amount) ==
    /\ tracker.kind = "M" /\ ncalls < MaxCalls
    /\ \E r \in {CASE kind = "B" -> moreTypeB(tracker, amount, fresh)
                    [] kind = "C" -> moreTypeC(tracker, amount, fresh)} :
           /\ tracker' = r.t
           /\ fresh' = r.fresh
           /\ made' = made \o r.ret
           /\ last' = Call(IF kind = "B" THEN "moreTypeB" ELSE "moreTypeC",
                           amount, tracker, r)
    /\ ncalls' = ncalls + 1
    /\ UNCHANGED <<issued, peeked, got>>
    /\ UNCHANGED <<wvars, sigcheck, deriv, saved, recoveryPKHs>>

\* tracker.getOne()
GetOne ==
    /\ IsPool /\ ncalls < MaxCalls
    /\ \E r \in {getOne(tracker, fresh)} :
           /\ tracker' = r.t
           /\ fresh' = r.fresh
           /\ issued' = issued \o priOf(r.ret)
           /\ got' = got \o r.ret
           /\ last' = Call("getOne", 1, tracker, r)
    /\ ncalls' = ncalls + 1
    /\ UNCHANGED <<peeked, made>>
    /\ UNCHANGED <<wvars, sigcheck, deriv, saved, recoveryPKHs>>

\* tracker.getN(amount)
GetN(amount) ==
    /\ IsPool /\ ncalls < MaxCalls
    /\ \E r \in {getN(tracker, amount, fresh)} :
           /\ tracker' = r.t
           /\ fresh' = r.fresh
           /\ issued' = issued \o priOf(r.ret)
           /\ got' = got \o r.ret
           /\ last' = Call("getN", amount, tracker, r)
    /\ ncalls' = ncalls + 1
    /\ UNCHANGED <<peeked, made>>
    /\ UNCHANGED <<wvars, sigcheck, deriv, saved, recoveryPKHs>>

\* the seeded tracker is persisted and rebuilt from what was persisted
Reload ==
    /\ tracker.kind = "C" /\ ncalls < MaxCalls
    /\ LET r == rebuilt(persisted(tracker), fresh)
       IN  /\ tracker' = r.t
           /\ fresh' = r.fresh
           /\ last' = [NoCall EXCEPT !.op = "reload"]
    /\ ncalls' = ncalls + 1
    /\ UNCHANGED <<issued, peeked, made, got>>
    /\ UNCHANGED <<wvars, sigcheck, deriv, saved, recoveryPKHs>>

\* kt.currentKeyPair()
CurrentKeyPair ==
    /\ tracker.kind = "K" /\ ncalls < MaxCalls
    /\ LET r == currentKeyPair(tracker, fresh)
       IN  /\ tracker' = r.t
           /\ fresh' = r.fresh
           /\ peeked' = [peeked EXCEPT !.cur = @ \cup SeqToSet(r.ret)]
           /\ last' = [NoCall EXCEPT !.op = "currentKeyPair", !.ret = r.ret]
    /\ ncalls' = ncalls + 1
    /\ UNCHANGED <<issued, made, got>>
    /\ UNCHANGED <<wvars, sigcheck, deriv, saved, recoveryPKHs>>

\* kt.getNextKeyPair()
GetNextKeyPair ==
    /\ tracker.kind = "K" /\ ncalls < MaxCalls
    /\ LET r == getNextKeyPair(tracker, fresh)
       IN  /\ tracker' = r.t
           /\ fresh' = r.fresh
           /\ peeked' = [peeked EXCEPT !.nxt = @ \cup SeqToSet(r.ret)]
           /\ last' = [NoCall EXCEPT !.op = "getNextKeyPair", !.ret = r.ret]
    /\ ncalls' = ncalls + 1
    /\ UNCHANGED <<issued, made, got>>
    /\ UNCHANGED <<wvars, sigcheck, deriv, saved, recoveryPKHs>>

\* lamport_getCurrentAndNextKeyData(kt)
ReadKeyData ==
    /\ tracker.kind = "K" /\ ncalls < MaxCalls
    /\ LET d == lamport_getCurrentAndNextKeyData(tracker, fresh)
       IN  /\ tracker' = d.k
           /\ fresh' = d.fresh
           /\ peeked' = [cur |-> peeked.cur \cup {d.current_keys},
                         nxt |-> peeked.nxt \cup {d.next_keys}]
           /\ last' = [NoCall EXCEPT !.op = "readKeyData",
                                     !.ret = <<d.current_keys, d.next_keys>>]
    /\ ncalls' = ncalls + 1
    /\ UNCHANGED <<issued, made, got>>
    /\ UNCHANGED <<wvars, sigcheck, deriv, saved, recoveryPKHs>>

\* kt.advance()
Advance ==
    /\ tracker.kind = "K" /\ ncalls < MaxCalls
    /\ LET r == advance(tracker, fresh)
       IN  /\ tracker' = r.t
           /\ fresh' = r.fresh
           /\ last' = [NoCall EXCEPT !.op = "advance"]
    /\ peeked' = [cur |-> {}, nxt |-> {}]
    /\ ncalls' = ncalls + 1
    /\ UNCHANGED <<issued, made, got>>
    /\ UNCHANGED <<wvars, sigcheck, deriv, saved, recoveryPKHs>>

TNext ==
    \/ \E amount \in Amounts : More(amount)
    \/ \E kind \in {"B", "C"}, amount \in Amounts : MoreType(kind, amount)
    \/ GetOne
    \/ \E amount \in Amounts : GetN(amount)
    \/ Reload
    \/ CurrentKeyPair
    \/ GetNextKeyPair
    \/ ReadKeyData
    \/ Advance

SpecT == TInit /\ [][TNext]_vars


(***************************************************************************)
(* The compressed tracker over stored records, damaged ones included       *)
(***************************************************************************)
\* the record more() stored for the k-th generated key and what it reads as
\* once its pkh or its secret were overwritten
StoredRecords(k) ==
    LET rec == compressLamport(mk_compressed_key_pair(k))
        other == compressLamport(mk_compressed_key_pair(k + MaxAmount + 1))
    IN  {rec, [rec EXCEPT !.pkh = other.pkh], [rec EXCEPT !.secret = other.secret],
         [rec EXCEPT !.pkh = substring2(@)]}

\* the queues of a KeyTrackerB after more(n): record k in place k
StoredQueues(n) ==
    {q \in [1..n -> UNION {StoredRecords(k) : k \in 1..n}] :
        \A k \in 1..n : q[k] \in StoredRecords(k)}

BInit ==
    /\ \E n \in 1..(MaxAmount + 1) :
           /\ tracker \in {[KeyTrackerB EXCEPT !.keys = q] : q \in StoredQueues(n)}
           /\ fresh = n
           /\ made = B_more(KeyTrackerB, n, 0).ret
    /\ ncalls = 0
    /\ issued = <<>>
    /\ peeked = [cur |-> {}, nxt |-> {}]
    /\ last = NoCall
    /\ got = <<>>
    /\ sigcheck = NoCheck
    /\ deriv = NoDeriv
    /\ saved = NoneSaved
    /\ recoveryPKHs = <<>>
    /\ kt = KeyTracker
    /\ keys = KeyTrackerA
    /\ gasPayer = FALSE
    /\ backup_keys = <<>>
    /\ tx_hashes = <<>>
    /\ proc = <<>>
    /\ started = 0
    /\ trustedPkh = NoHex
    /\ redeemable = {}
    /\ signed = {}
    /\ family = "none"
    /\ burnt = {}
    /\ overlap = FALSE
    /\ friends = <<>>

BNext ==
    \/ GetOne
    \/ \E amount \in Amounts : GetN(amount)

SpecB == BInit /\ [][BNext]_vars


(***************************************************************************)
(* Derivations: expansion, compression and re-expansion of one secret      *)
(***************************************************************************)
\* the generations a key pair is drawn from
Generations == 1..(InitKeys + MaxAmount)

DInit ==
    /\ deriv \in
          {[NoDeriv EXCEPT !.secret = GENERATE_INITIAL_SECRET(k)] : k \in Generations}
            \cup {[NoDeriv EXCEPT !.seeded = TRUE,
                                  !.seed = GENERATE_INITIAL_SECRET(k),
                                  !.nonce = n,
                                  !.secret = HASH(COMBINE(GENERATE_INITIAL_SECRET(k), n))] :
                     k \in Generations, n \in 0..MaxAmount}
    /\ tracker = KeyTrackerA
    /\ fresh = 1
    /\ ncalls = 0
    /\ issued = <<>>
    /\ peeked = [cur |-> {}, nxt |-> {}]
    /\ last = NoCall
    /\ made = <<>>
    /\ got = <<>>
    /\ sigcheck = NoCheck
    /\ saved = NoneSaved
    /\ recoveryPKHs = <<>>
    /\ kt = KeyTracker
    /\ keys = KeyTrackerA
    /\ gasPayer = FALSE
    /\ backup_keys = <<>>
    /\ tx_hashes = <<>>
    /\ proc = <<>>
    /\ started = 0
    /\ trustedPkh = NoHex
    /\ redeemable = {}
    /\ signed = {}
    /\ family = "none"
    /\ burnt = {}
    /\ overlap = FALSE
    /\ friends = <<>>

dframe == <<tvars, wvars, sigcheck, saved, recoveryPKHs>>

\* the expansion mk_compressed_key_pair runs, on the secret
Expand ==
    /\ deriv.expanded = <<>>
    /\ deriv' = [deriv EXCEPT !.expanded = <<expandSecret(deriv.secret)>>]
    /\ UNCHANGED dframe

\* compressLamport(expanded)
Compress ==
    /\ deriv.expanded # <<>> /\ deriv.rec = <<>>
    /\ deriv' = [deriv EXCEPT !.rec = <<compressLamport(deriv.expanded[1])>>]
    /\ UNCHANGED dframe

\* uncompressLamport(rec)
Uncompress ==
    /\ deriv.rec # <<>> /\ deriv.restored = <<>>
    /\ deriv' = [deriv EXCEPT !.restored = <<uncompressLamport(deriv.rec[1])>>]
    /\ UNCHANGED dframe

\* mk_compressed_key_pair_from_seed_and_nonce(seed, nonce)
DeriveSeeded ==
    /\ deriv.seeded /\ deriv.derived = <<>>
    /\ deriv' = [deriv EXCEPT
                    !.derived = <<mk_compressed_key_pair_from_seed_and_nonce(
                                      deriv.seed, deriv.nonce)>>]
    /\ UNCHANGED dframe

\* uncompressLamport(compressLamport(derived))
RederiveSeeded ==
    /\ deriv.derived # <<>> /\ deriv.rederived = <<>>
    /\ deriv' = [deriv EXCEPT
                    !.rederived = <<uncompressLamport(compressLamport(deriv.derived[1]))>>]
    /\ UNCHANGED dframe

DNext ==
    \/ Expand
    \/ Compress
    \/ Uncompress
    \/ DeriveSeeded
    \/ RederiveSeeded

SpecD == DInit /\ [][DNext]_vars


(***************************************************************************)
(* The seeded tracker with its record written out at one time and read     *)
(* back at a later one                                                     *)
(***************************************************************************)
RInit ==
    /\ tracker = KeyTrackerC(0)
    /\ fresh = 1
    /\ ncalls = 0
    /\ issued = <<>>
    /\ peeked = [cur |-> {}, nxt |-> {}]
    /\ last = NoCall
    /\ made = <<>>
    /\ got = <<>>
    /\ sigcheck = NoCheck
    /\ deriv = NoDeriv
    /\ saved = NoneSaved
    /\ recoveryPKHs = <<>>
    /\ kt = KeyTracker
    /\ keys = KeyTrackerA
    /\ gasPayer = FALSE
    /\ backup_keys = <<>>
    /\ tx_hashes = <<>>
    /\ proc = <<>>
    /\ started = 0
    /\ trustedPkh = NoHex
    /\ redeemable = {}
    /\ signed = {}
    /\ family = "none"
    /\ burnt = {}
    /\ overlap = FALSE
    /\ friends = <<>>

\* (seed, nonce, issuedCount) is written out
Persist ==
    /\ tracker.kind = "C"
    /\ saved' = [rec |-> persisted(tracker), at |-> Len(got)]
    /\ UNCHANGED <<tvars, wvars, sigcheck, deriv, recoveryPKHs>>

\* a tracker is rebuilt from the record last written out
Restore ==
    /\ tracker.kind = "C" /\ ncalls < MaxCalls
    /\ saved.rec # <<>>
    /\ \E r \in {rebuilt(saved.rec, fresh)} :
           /\ tracker' = r.t
           /\ fresh' = r.fresh
    /\ last' = [NoCall EXCEPT !.op = "restore"]
    /\ ncalls' = ncalls + 1
    /\ UNCHANGED <<issued, peeked, made, got>>
    /\ UNCHANGED <<wvars, sigcheck, deriv, saved, recoveryPKHs>>

RNext ==
    \/ \E amount \in Amounts : More(amount)
    \/ GetOne
    \/ \E amount \in Amounts : GetN(amount)
    \/ Persist
    \/ Restore

SpecR == RInit /\ [][RNext]_vars


(***************************************************************************)
(* Signature round trips: sign_hash, then verify_signed_hash               *)
(***************************************************************************)
\* key pairs as generation and derivation produce them
GeneratedKeys ==
    {mk_key_pair(k) : k \in Generations}
        \cup {mk_compressed_key_pair(k) : k \in Generations}
        \cup {mk_compressed_key_pair_from_seed_and_nonce(GENERATE_INITIAL_SECRET(k), n) :
                 k \in Generations, n \in 0..MaxAmount}

\* message hashes: digests that cover every pattern of the NBits bits read
MessageHashes == {hash_b(Word(n)) : n \in 0..(Pow2(NBits) - 1)}

\* private keys of the wrong length: one pair short, one pair too many
MalformedKeys ==
    UNION {{[kp EXCEPT !.pri = SubSeq(@, 1, NBits - 1)],
            [kp EXCEPT !.pri = @ \o <<@[1]>>]} :
               kp \in {mk_key_pair(1), mk_compressed_key_pair(1)}}

VInit ==
    /\ sigcheck \in {[NoCheck EXCEPT !.stage = "drawn", !.kp = kp, !.h = h, !.hv = h] :
                        kp \in GeneratedKeys \cup MalformedKeys, h \in MessageHashes}
    /\ tracker = KeyTrackerA
    /\ fresh = 1
    /\ ncalls = 0
    /\ issued = <<>>
    /\ peeked = [cur |-> {}, nxt |-> {}]
    /\ last = NoCall
    /\ made = <<>>
    /\ got = <<>>
    /\ deriv = NoDeriv
    /\ saved = NoneSaved
    /\ recoveryPKHs = <<>>
    /\ kt = KeyTracker
    /\ keys = KeyTrackerA
    /\ gasPayer = FALSE
    /\ backup_keys = <<>>
    /\ tx_hashes = <<>>
    /\ proc = <<>>
    /\ started = 0
    /\ trustedPkh = NoHex
    /\ redeemable = {}
    /\ signed = {}
    /\ family = "none"
    /\ burnt = {}
    /\ overlap = FALSE
    /\ friends = <<>>

\* sig = sign_hash(h, kp.pri); the call throws for a malformed key
SignHash ==
    /\ sigcheck.stage = "drawn"
    /\ \E sig \in {sign_hash(sigcheck.h, sigcheck.kp.pri)} :
           sigcheck' = [sigcheck EXCEPT
                            !.stage = IF sig = <<>> THEN "threw" ELSE "signed",
                            !.sig = sig, !.sigv = sig]
    /\ UNCHANGED <<tvars, wvars, deriv, saved, recoveryPKHs>>

\* the signature is presented with another message hash
FlipHash ==
    /\ sigcheck.stage = "signed"
    /\ \E h2 \in MessageHashes \ {sigcheck.h} :
           sigcheck' = [sigcheck EXCEPT !.stage = "altered", !.alt = "hash", !.hv = h2]
    /\ UNCHANGED <<tvars, wvars, deriv, saved, recoveryPKHs>>

\* values a signature element can be replaced by: the halves of the private
\* key and a value that is no half of it
Substitutes(pri) ==
    {pri[i][w] : i \in 1..Len(pri), w \in 1..2} \cup {hash(Word(0))}

\* one element of the signature is replaced by a string of other bytes
ChangeElement ==
    /\ sigcheck.stage = "signed"
    /\ \E i \in 1..Len(sigcheck.sig), e \in Substitutes(sigcheck.kp.pri) :
           /\ e.v # sigcheck.sig[i].v
           /\ sigcheck' = [sigcheck EXCEPT !.stage = "altered", !.alt = "element",
                                           !.sigv = [@ EXCEPT ![i] = e]]
    /\ UNCHANGED <<tvars, wvars, deriv, saved, recoveryPKHs>>

\* one element of the signature gains or loses its 0x prefix
TogglePrefix ==
    /\ sigcheck.stage = "signed"
    /\ \E i \in 1..Len(sigcheck.sig) :
           sigcheck' = [sigcheck EXCEPT
                            !.stage = "altered", !.alt = "prefix",
                            !.sigv = [@ EXCEPT ![i] = IF @.pfx THEN substring2(@)
                                                      ELSE With0x(@)]]
    /\ UNCHANGED <<tvars, wvars, deriv, saved, recoveryPKHs>>

\* verify_signed_hash(hv, sigv, kp.pub)
VerifySignedHash ==
    /\ sigcheck.stage \in {"signed", "altered"}
    /\ sigcheck' = [sigcheck EXCEPT
                        !.stage = IF @ = "signed" THEN "verified" ELSE "verifiedAltered",
                        !.ok = verify_signed_hash(sigcheck.hv, sigcheck.sigv,
                                                  sigcheck.kp.pub)]
    /\ UNCHANGED <<tvars, wvars, deriv, saved, recoveryPKHs>>

VNext ==
    \/ SignHash
    \/ FlipHash
    \/ ChangeElement
    \/ TogglePrefix
    \/ VerifySignedHash

SpecV == VInit /\ [][VNext]_vars

(***************************************************************************)
(* The wallet: state and operations                                        *)
(***************************************************************************)
Procs == 1..2

Payloads == 1..2

ManagerOps == {"call_execute", "call_sendEther", "call_sendEtherWithManualGas",
               "call_setTenRecoveryPKHs"}

HelperOps == {"addNKeys", "setDetail", "endorseMessage", "endorsePublicKeyHash",
              "sendEtherFromContract"}

\* a key pair whose public half does not belong to its private half, as a
\* corrupted key store gives (keys is a public field of the tracker)
damaged(keyPair) == [keyPair EXCEPT !.pub = mk_key_pair(0).pub]

\* an operation slot that runs nothing; err is the error its last run threw
Idle(err) ==
    [pc |-> "idle", op |-> "none", id |-> 0, x |-> 0, key |-> NoKey,
     data |-> NoHex, nextpkh |-> NoHex, hash |-> NoHex, sig |-> <<>>,
     newKeys |-> <<>>, sent |-> FALSE, err |-> err, k2 |-> KeyTracker]

\* the pkhs the pool contract holds for the keys of tracker t at deployment
RECURSIVE pkhsOf(_)
pkhsOf(t) ==
    IF count(t) = 0 THEN {}
    ELSE LET r == getOne(t, 0)
         IN  {pkhFromPublicKey(r.ret[1].pub)} \cup pkhsOf(r.t)

WInit ==
    /\ tracker = KeyTracker
    /\ ncalls = 0
    /\ issued = <<>>
    /\ peeked = [cur |-> {}, nxt |-> {}]
    /\ last = NoCall
    /\ made = <<>>
    /\ got = <<>>
    /\ sigcheck = NoCheck
    /\ deriv = NoDeriv
    /\ saved = NoneSaved
    /\ recoveryPKHs = <<>>
    /\ fresh = InitKeys + 2
    /\ family \in {"manager", "helpers"}
    /\ IF family = "manager"
       THEN /\ kt = currentKeyPair(KeyTracker, 0).t
            /\ keys = KeyTrackerA
       ELSE /\ kt = KeyTracker
            /\ LET a == A_more(KeyTrackerA, InitKeys, 1).t
               IN  keys \in {a,
                             [a EXCEPT !.keys[1] = damaged(@)],
                             B_more(KeyTrackerB, InitKeys, 1).t,
                             C_more(KeyTrackerC(1), InitKeys, 2).t}
    /\ gasPayer = FALSE
    /\ backup_keys = <<>>
    /\ tx_hashes = <<>>
    /\ proc = [p \in Procs |-> Idle(NoError)]
    /\ started = 0
    /\ trustedPkh = IF family = "manager" THEN K_pkh(kt) ELSE NoHex
    /\ redeemable = pkhsOf(keys)
    /\ signed = {}
    /\ burnt = {}
    /\ overlap = FALSE
    /\ friends = <<>>

\* the operation in slot p throws err
Fail(p, err) ==
    /\ proc' = [proc EXCEPT ![p] = Idle(err)]
    /\ burnt' = IF proc[p].sent THEN burnt \cup {proc[p].key.pri} ELSE burnt

\* slot p takes a new operation (the lowest idle slot)
Begin(p) ==
    /\ proc[p].pc = "idle"
    /\ \A q \in 1..(p - 1) : proc[q].pc # "idle"
    /\ started < MaxOps
    /\ started' = started + 1
    /\ overlap' = (overlap \/ \E q \in Procs : proc[q].pc # "idle")

\* a pushTxHash that keeps only the newest hash
pushTxHashReplacing(hashes, tx_hash) == <<tx_hash>>

\* pushTxHash(tx_hash): this.state.tx_hashes.push(tx_hash)
pushTxHash(hashes, tx_hash) == Append(hashes, tx_hash)

\* get topTxHash: <<>> stands for null, <<h>> for the hash h
topTxHash(hashes) ==
    IF Len(hashes) = 0 THEN <<>> ELSE <<hashes[Len(hashes)]>>

\* a call_setTenRecoveryPKHs that stores tenKeys whether or not the call returned
backup_keysStoredAnyway(stored, tenKeys, returned) == tenKeys

\* state.backup_keys at the end of call_setTenRecoveryPKHs:
\* this.state.backup_keys = tenKeys is reached only when
\* await lamportwallet.setTenRecoveryPKHs(...) returned
backup_keysAfterSetTen(stored, tenKeys, returned) ==
    IF returned THEN tenKeys ELSE stored

\* lwm.setGasPayer(signer)
SetGasPayer ==
    /\ ~gasPayer
    /\ gasPayer' = TRUE
    /\ UNCHANGED <<kt, keys, backup_keys, tx_hashes, proc, started, trustedPkh,
                   redeemable, signed, burnt, overlap, fresh>>
    /\ UNCHANGED tframe

\* call_execute, call_sendEther, call_sendEtherWithManualGas: up to
\* await this.getGasPayer()
StartManager(p, op, x) ==
    /\ family = "manager"
    /\ op \in ManagerOps \ {"call_setTenRecoveryPKHs"}
    /\ Begin(p)
    /\ proc' = [proc EXCEPT ![p] =
                   [Idle(NoError) EXCEPT !.pc = "getGasPayer", !.op = op,
                                         !.id = started + 1, !.x = x]]
    /\ UNCHANGED <<kt, keys, gasPayer, backup_keys, tx_hashes, trustedPkh,
                   redeemable, signed, burnt, fresh>>
    /\ UNCHANGED tframe

\* call_setTenRecoveryPKHs: generates the keys, signs and self-checks, then
\* await this.getGasPayer()
StartSetTen(p) ==
    /\ family = "manager"
    /\ Begin(p)
    /\ \E tenKeys \in {[i \in 1..NBackup |-> mk_key_pair(fresh + i)]} :
       \E a \in {setTenArguments(kt, tenKeys, fresh + NBackup)} :
           /\ kt' = a.k
           /\ fresh' = a.fresh
           /\ signed' = signed \cup {[key |-> a.key.pri, hash |-> a.hash]}
           /\ IF a.ok
              THEN /\ proc' = [proc EXCEPT ![p] =
                         [Idle(NoError) EXCEPT
                             !.pc = "getGasPayer", !.op = "call_setTenRecoveryPKHs",
                             !.id = started + 1, !.key = a.key, !.data = a.data,
                             !.nextpkh = a.nextpkh, !.hash = a.hash, !.sig = a.sig,
                             !.newKeys = tenKeys]]
                   /\ UNCHANGED burnt
              ELSE Fail(p, "Invalid Lamport Signature")
    /\ UNCHANGED <<keys, gasPayer, backup_keys, tx_hashes, trustedPkh,
                   redeemable>>
    /\ UNCHANGED tframe

\* addNKeys, setDetail, endorseMessage, endorsePublicKeyHash,
\* sendEtherFromContract: keys.getOne(), then await isRedeemable
StartHelper(p, op, x) ==
    /\ family = "helpers"
    /\ op \in HelperOps
    /\ x = 1
    /\ Begin(p)
    /\ \E r \in {signingKeysOf(keys, fresh)} :
           /\ keys' = r.t
           /\ fresh' = r.fresh
           /\ IF r.err = NoError
              THEN /\ proc' = [proc EXCEPT ![p] =
                         [Idle(NoError) EXCEPT !.pc = "isRedeemable", !.op = op,
                                               !.id = started + 1, !.x = x,
                                               !.key = r.ret[1]]]
                   /\ UNCHANGED burnt
              ELSE Fail(p, r.err)
    /\ UNCHANGED <<kt, gasPayer, backup_keys, tx_hashes, trustedPkh,
                   redeemable, signed>>
    /\ UNCHANGED tframe

\* getGasPayer() settles: the manager operation signs and makes its first
\* ledger call
GasPayerResolves(p) ==
    /\ proc[p].pc = "getGasPayer"
    /\ IF ~gasPayer
       THEN /\ Fail(p, "No gas payer available")
            /\ UNCHANGED <<kt, fresh, signed>>
       ELSE IF proc[p].op = "call_setTenRecoveryPKHs"
       THEN /\ proc' = [proc EXCEPT ![p].pc = "estimateGas", ![p].sent = TRUE]
            /\ UNCHANGED <<kt, fresh, signed, burnt>>
       ELSE \E a \in {IF proc[p].op = "call_execute"
                      THEN buildExecuteArguments(kt, proc[p].x, fresh)
                      ELSE sendEtherArguments(kt, proc[p].x, fresh)} :
            \E pr \in {[proc[p] EXCEPT
                          !.key = a.key, !.data = a.data, !.nextpkh = a.nextpkh,
                          !.hash = a.hash, !.sig = a.sig, !.sent = TRUE]} :
                /\ kt' = a.k
                /\ fresh' = a.fresh
                /\ signed' = signed \cup {[key |-> a.key.pri, hash |-> a.hash]}
                /\ IF ~a.ok
                   THEN /\ Fail(p, "Invalid Lamport Signature")
                   ELSE /\ UNCHANGED burnt
                        /\ CASE proc[p].op = "call_sendEther" ->
                                  /\ proc' = [proc EXCEPT ![p] =
                                                 [pr EXCEPT !.pc = "estimateGas"]]
                             [] proc[p].op = "call_execute" ->
                                  /\ proc' = [proc EXCEPT ![p] = [pr EXCEPT !.pc = "tx"]]
                             [] proc[p].op = "call_sendEtherWithManualGas" ->
                                  /\ proc' = [proc EXCEPT ![p] = [pr EXCEPT !.pc = "tx"]]
    /\ UNCHANGED <<keys, gasPayer, backup_keys, tx_hashes, started, trustedPkh,
                   redeemable, overlap>>
    /\ UNCHANGED tframe

\* contract.isRedeemable(publicKeyHash) settles: checkValidPublicKey, then the
\* helpers operation signs and makes its first ledger call
IsRedeemableResolves(p) ==
    /\ proc[p].pc = "isRedeemable"
    /\ IF ~checkValidPublicKey(proc[p].key, redeemable)
       THEN /\ Fail(p, "Invalid signing key")
            /\ UNCHANGED <<keys, fresh, signed>>
       ELSE \E m \in {IF proc[p].op = "addNKeys"
                      THEN keysMore(keys, proc[p].x, fresh)
                      ELSE Result(keys, <<>>, NoError, fresh)} :
            \E h \in {helperSign(proc[p].op, proc[p].x, proc[p].key, m.ret)} :
            \E pr \in {[proc[p] EXCEPT !.data = h.data, !.hash = h.hash,
                                       !.sig = h.sig, !.newKeys = m.ret,
                                       !.sent = TRUE]} :
                /\ keys' = m.t
                /\ fresh' = m.fresh
                /\ signed' = signed \cup {[key |-> proc[p].key.pri, hash |-> h.hash]}
                /\ IF ~h.ok
                   THEN /\ Fail(p, "Invalid signature")
                   ELSE /\ UNCHANGED burnt
                        /\ IF proc[p].op = "addNKeys"
                           THEN /\ proc' = [proc EXCEPT ![p] =
                                               [pr EXCEPT !.pc = "estimateGas"]]
                           ELSE /\ proc' = [proc EXCEPT ![p] = [pr EXCEPT !.pc = "tx"]]
    /\ UNCHANGED <<kt, gasPayer, backup_keys, tx_hashes, started, trustedPkh,
                   redeemable, overlap>>
    /\ UNCHANGED tframe

\* would the ledger accept the submission of the operation pr now
ledgerAccepts(pr) ==
    IF pr.op \in ManagerOps
    THEN walletAccepts(trustedPkh, pr.data, pr.key.pub, pr.nextpkh, pr.sig)
    ELSE poolAccepts(redeemable, pr.data, pr.key.pub, pr.sig)

\* estimateGas settles with a gas limit
EstimateGasResolves(p) ==
    /\ proc[p].pc = "estimateGas"
    /\ ledgerAccepts(proc[p])
    /\ IF proc[p].op = "call_sendEther"
       THEN /\ proc' = [proc EXCEPT ![p].pc = "tx"]
       ELSE /\ proc' = [proc EXCEPT ![p].pc = "getGasPrice"]
    /\ UNCHANGED <<kt, keys, gasPayer, backup_keys, tx_hashes, started, trustedPkh,
                   redeemable, signed, burnt, overlap, fresh>>
    /\ UNCHANGED tframe

\* getGasPrice settles: the transaction call is made
GasPriceResolves(p) ==
    /\ proc[p].pc = "getGasPrice"
    /\ proc' = [proc EXCEPT ![p].pc = "tx"]
    /\ UNCHANGED <<kt, keys, gasPayer, backup_keys, tx_hashes, started, trustedPkh,
                   redeemable, signed, burnt, overlap, fresh>>
    /\ UNCHANGED tframe

\* the wallet contract's recovery list once setTenRecoveryPKHs was accepted: the
\* submitted tenPKHs
listedAfterSetTen(tenKeys) ==
    [i \in 1..Len(tenKeys) |-> pkhFromPublicKey(tenKeys[i].pub)]

\* the transaction call returns: the ledger accepted the submission
TxAccepted(p) ==
    /\ proc[p].pc = "tx"
    /\ ledgerAccepts(proc[p])
    /\ proc' = [proc EXCEPT ![p] = Idle(NoError)]
    /\ IF proc[p].op \in ManagerOps
       THEN /\ trustedPkh' = proc[p].nextpkh
            /\ tx_hashes' = pushTxHash(tx_hashes, proc[p].id)
            /\ backup_keys' = IF proc[p].op = "call_setTenRecoveryPKHs"
                              THEN backup_keysAfterSetTen(backup_keys,
                                                          proc[p].newKeys, TRUE)
                              ELSE backup_keys
            /\ recoveryPKHs' = IF proc[p].op = "call_setTenRecoveryPKHs"
                               THEN listedAfterSetTen(proc[p].newKeys)
                               ELSE recoveryPKHs
            /\ UNCHANGED redeemable
       ELSE /\ redeemable' =
                   (redeemable \ {pkhFromPublicKey(proc[p].key.pub)})
                   \cup {pkhFromPublicKey(proc[p].newKeys[i].pub) :
                            i \in 1..Len(proc[p].newKeys)}
            /\ UNCHANGED <<trustedPkh, tx_hashes, backup_keys, recoveryPKHs>>
    /\ UNCHANGED <<kt, keys, gasPayer, started, signed, burnt, overlap,
                   fresh>>
    /\ UNCHANGED xframe

\* the pending ledger call throws (revert, rejection, RPC failure)
LedgerCallFails(p) ==
    /\ proc[p].pc \in {"isRedeemable", "estimateGas", "getGasPrice", "tx"}
    /\ Fail(p, "call failed")
    /\ backup_keys' = IF proc[p].op = "call_setTenRecoveryPKHs"
                      THEN backup_keysAfterSetTen(backup_keys, proc[p].newKeys, FALSE)
                      ELSE backup_keys
    /\ UNCHANGED <<kt, keys, gasPayer, tx_hashes, started, trustedPkh,
                   redeemable, signed, overlap, fresh>>
    /\ UNCHANGED tframe

WNext ==
    \/ SetGasPayer
    \/ \E p \in Procs, op \in ManagerOps, x \in Payloads : StartManager(p, op, x)
    \/ \E p \in Procs : StartSetTen(p)
    \/ \E p \in Procs, op \in HelperOps, x \in Payloads : StartHelper(p, op, x)
    \/ \E p \in Procs : GasPayerResolves(p)
    \/ \E p \in Procs : IsRedeemableResolves(p)
    \/ \E p \in Procs : EstimateGasResolves(p)
    \/ \E p \in Procs : GasPriceResolves(p)
    \/ \E p \in Procs : TxAccepted(p)
    \/ \E p \in Procs : LedgerCallFails(p)

SpecW == WInit /\ [][WNext]_vars

(***************************************************************************)
(* The helpers operations, on a tracker some of whose keys the pool        *)
(* contract does not hold as redeemable                                    *)
(***************************************************************************)
\* the pkh of the i-th key tracker t would deliver (i from 1)
RECURSIVE pkhOfNth(_, _)
pkhOfNth(t, i) ==
    LET r == getOne(t, 0)
    IN  IF i = 1 THEN pkhFromPublicKey(r.ret[1].pub) ELSE pkhOfNth(r.t, i - 1)

HInit ==
    /\ family = "helpers"
    /\ kt = KeyTracker
    /\ keys \in {A_more(KeyTrackerA, InitKeys, 1).t,
                 [A_more(KeyTrackerA, InitKeys, 1).t EXCEPT !.keys[1] = damaged(@)],
                 A_more(KeyTrackerA, 1, 1).t,
                 B_more(KeyTrackerB, InitKeys, 1).t,
                 C_more(KeyTrackerC(1), InitKeys, 2).t}
    /\ redeemable \in {pkhsOf(keys)}
                        \cup {pkhsOf(keys) \ {pkhOfNth(keys, i)} : i \in 1..count(keys)}
    /\ fresh = InitKeys + 2
    /\ gasPayer = FALSE
    /\ backup_keys = <<>>
    /\ tx_hashes = <<>>
    /\ proc = [p \in Procs |-> Idle(NoError)]
    /\ started = 0
    /\ trustedPkh = NoHex
    /\ signed = {}
    /\ burnt = {}
    /\ overlap = FALSE
    /\ friends = <<>>
    /\ tracker = KeyTracker
    /\ ncalls = 0
    /\ issued = <<>>
    /\ peeked = [cur |-> {}, nxt |-> {}]
    /\ last = NoCall
    /\ made = <<>>
    /\ got = <<>>
    /\ sigcheck = NoCheck
    /\ deriv = NoDeriv
    /\ saved = NoneSaved
    /\ recoveryPKHs = <<>>

HNext ==
    \/ \E p \in Procs, op \in HelperOps, x \in Payloads : StartHelper(p, op, x)
    \/ \E p \in Procs : IsRedeemableResolves(p)
    \/ \E p \in Procs : EstimateGasResolves(p)
    \/ \E p \in Procs : GasPriceResolves(p)
    \/ \E p \in Procs : TxAccepted(p)
    \/ \E p \in Procs : LedgerCallFails(p)

SpecH == HInit /\ [][HNext]_vars

(***************************************************************************)
(* call_recover, on a wallet whose recovery keys are set                   *)
(***************************************************************************)
\* the wallet contract accepts recover(newpkh, pub, sig): pub is one of the
\* listed recovery keys and sig signs the new pkh
recoverAccepts(listed, newpkh, pub, sig) ==
    /\ \E i \in 1..Len(listed) : listed[i] = pkhFromPublicKey(pub)
    /\ verify_signed_hash(hash_b(solidityPack(<<newpkh>>)), sig, pub)

\* the list after an accepted recover: the contract's code is not part of
\* the source, it may keep the pkh used or strike it
listedAfterRecover(listed, pub) ==
    {listed,
     [i \in 1..Len(listed) |->
         IF listed[i] = pkhFromPublicKey(pub) THEN NoHex ELSE listed[i]]}

\* this.state.backup_keys.find(pair => pkhFromPublicKey(pair.pub) === option):
\* the pairs found, at most the first one
findRecoveryKeyPair(pairs, option) ==
    LET hits == {i \in 1..Len(pairs) : pkhFromPublicKey(pairs[i].pub) = option}
    IN  IF hits = {} THEN <<>>
        ELSE <<pairs[CHOOSE i \in hits : \A j \in hits : i <= j]>>

\* lines 475-479 of call_recover: k2 = new KeyTracker(), the hash of k2.pkh
\* signed with the recovery key, the self-check
recoverArguments(recoveryKeyPair, drawn) ==
    LET c == currentKeyPair(KeyTracker, drawn)
        callhash == hash_b(solidityPack(<<K_pkh(c.t)>>))
        sig == sign_hash(callhash, recoveryKeyPair.pri)
    IN  [k2 |-> c.t, fresh |-> c.fresh, nextpkh |-> K_pkh(c.t), hash |-> callhash,
         ok |-> verify_signed_hash(callhash, sig, recoveryKeyPair.pub),
         sig |-> [i \in 1..Len(sig) |-> Prefix0x(sig[i])]]

\* a call_recover that installs k2 whether or not the recover call returned
ktInstalledAnyway(k, k2, returned) == k2

\* state.kt at the end of call_recover: this.state.kt = k2 is reached only
\* when await lamportwallet.recover(...) returned
ktAfterRecover(k, k2, returned) == IF returned THEN k2 ELSE k

\* the manager as constructed, or once its call_setTenRecoveryPKHs was accepted
XInit ==
    /\ \/ /\ kt = currentKeyPair(KeyTracker, 0).t
          /\ fresh = InitKeys + 2
          /\ signed = {}
          /\ backup_keys = <<>>
          /\ trustedPkh = K_pkh(kt)
          /\ recoveryPKHs = <<>>
          /\ tx_hashes = <<>>
       \/ /\ \E tenKeys \in {[i \in 1..NBackup |-> mk_key_pair(InitKeys + 2 + i)]} :
             \E a \in {setTenArguments(currentKeyPair(KeyTracker, 0).t, tenKeys,
                                       InitKeys + 2 + NBackup)} :
                 /\ kt = a.k
                 /\ fresh = a.fresh
                 /\ signed = {[key |-> a.key.pri, hash |-> a.hash]}
                 /\ backup_keys = tenKeys
                 /\ trustedPkh = a.nextpkh
                 /\ recoveryPKHs =
                        [i \in 1..NBackup |-> pkhFromPublicKey(tenKeys[i].pub)]
          /\ tx_hashes = <<0>>
    /\ gasPayer \in BOOLEAN
    /\ family = "manager"
    /\ keys = KeyTrackerA
    /\ proc = [p \in Procs |-> Idle(NoError)]
    /\ started = 0
    /\ redeemable = {}
    /\ burnt = {}
    /\ overlap = FALSE
    /\ friends = <<>>
    /\ tracker = KeyTracker
    /\ ncalls = 0
    /\ issued = <<>>
    /\ peeked = [cur |-> {}, nxt |-> {}]
    /\ last = NoCall
    /\ made = <<>>
    /\ got = <<>>
    /\ sigcheck = NoCheck
    /\ deriv = NoDeriv
    /\ saved = NoneSaved

\* call_recover(selectedRecoveryKeyIndex): up to await this.getGasPayer()
StartRecover(p, selectedRecoveryKeyIndex) ==
    /\ family = "manager"
    /\ Begin(p)
    /\ proc' = [proc EXCEPT ![p] =
                   [Idle(NoError) EXCEPT !.pc = "getGasPayer", !.op = "call_recover",
                                         !.id = started + 1,
                                         !.x = selectedRecoveryKeyIndex]]
    /\ UNCHANGED <<kt, keys, gasPayer, backup_keys, tx_hashes, trustedPkh,
                   redeemable, signed, burnt, fresh, recoveryPKHs>>
    /\ UNCHANGED xframe

\* getGasPayer() settles: await lamportwallet.getRecoveryPKHs()
RecoverGasPayerResolves(p) ==
    /\ proc[p].op = "call_recover" /\ proc[p].pc = "getGasPayer"
    /\ IF ~gasPayer
       THEN Fail(p, "No gas payer available")
       ELSE /\ proc' = [proc EXCEPT ![p].pc = "getRecoveryPKHs"]
            /\ UNCHANGED burnt
    /\ UNCHANGED <<kt, keys, gasPayer, backup_keys, tx_hashes, started, trustedPkh,
                   redeemable, signed, overlap, fresh, recoveryPKHs>>
    /\ UNCHANGED xframe

\* getRecoveryPKHs() settles: the key pair is looked up, the new tracker's pkh
\* is signed with it and self-checked, estimateGas.recover is called
RecoveryPKHsResolves(p) ==
    /\ proc[p].op = "call_recover" /\ proc[p].pc = "getRecoveryPKHs"
    /\ \E found \in {IF proc[p].x + 1 \in 1..Len(recoveryPKHs)
                     THEN findRecoveryKeyPair(backup_keys, recoveryPKHs[proc[p].x + 1])
                     ELSE <<>>} :
           IF found = <<>>
           THEN /\ Fail(p, "LamportWalletManager:: Could not find recovery key pair")
                /\ UNCHANGED <<fresh, signed>>
           ELSE \E a \in {recoverArguments(found[1], fresh)} :
                    /\ fresh' = a.fresh
                    /\ signed' = signed \cup {[key |-> found[1].pri, hash |-> a.hash]}
                    /\ IF ~a.ok
                       THEN Fail(p, "Invalid Lamport Signature")
                       ELSE /\ proc' = [proc EXCEPT ![p] =
                                   [@ EXCEPT !.pc = "estimateGas", !.key = found[1],
                                             !.nextpkh = a.nextpkh, !.hash = a.hash,
                                             !.sig = a.sig, !.k2 = a.k2, !.sent = TRUE]]
                            /\ UNCHANGED burnt
    /\ UNCHANGED <<kt, keys, gasPayer, backup_keys, tx_hashes, started, trustedPkh,
                   redeemable, overlap, recoveryPKHs>>
    /\ UNCHANGED xframe

\* estimateGas.recover settles with a gas limit: await gasWallet.getGasPrice()
RecoverEstimateGasResolves(p) ==
    /\ proc[p].op = "call_recover" /\ proc[p].pc = "estimateGas"
    /\ recoverAccepts(recoveryPKHs, proc[p].nextpkh, proc[p].key.pub, proc[p].sig)
    /\ proc' = [proc EXCEPT ![p].pc = "getGasPrice"]
    /\ UNCHANGED <<kt, keys, gasPayer, backup_keys, tx_hashes, started, trustedPkh,
                   redeemable, signed, burnt, overlap, fresh, recoveryPKHs>>
    /\ UNCHANGED xframe

\* getGasPrice settles: lamportwallet.recover is called
RecoverGasPriceResolves(p) ==
    /\ proc[p].op = "call_recover" /\ proc[p].pc = "getGasPrice"
    /\ proc' = [proc EXCEPT ![p].pc = "tx"]
    /\ UNCHANGED <<kt, keys, gasPayer, backup_keys, tx_hashes, started, trustedPkh,
                   redeemable, signed, burnt, overlap, fresh, recoveryPKHs>>
    /\ UNCHANGED xframe

\* lamportwallet.recover returns: pushTxHash(tx.hash), this.state.kt = k2
RecoverTxAccepted(p) ==
    /\ proc[p].op = "call_recover" /\ proc[p].pc = "tx"
    /\ recoverAccepts(recoveryPKHs, proc[p].nextpkh, proc[p].key.pub, proc[p].sig)
    /\ proc' = [proc EXCEPT ![p] = Idle(NoError)]
    /\ trustedPkh' = proc[p].nextpkh
    /\ recoveryPKHs' \in listedAfterRecover(recoveryPKHs, proc[p].key.pub)
    /\ tx_hashes' = pushTxHash(tx_hashes, proc[p].id)
    /\ kt' = ktAfterRecover(kt, proc[p].k2, TRUE)
    /\ UNCHANGED <<keys, gasPayer, backup_keys, started, redeemable, signed, burnt,
                   overlap, fresh>>
    /\ UNCHANGED xframe

\* the pending ledger call of call_recover throws
RecoverCallFails(p) ==
    /\ proc[p].op = "call_recover"
    /\ proc[p].pc \in {"getRecoveryPKHs", "estimateGas", "getGasPrice", "tx"}
    /\ Fail(p, "call failed")
    /\ kt' = ktAfterRecover(kt, proc[p].k2, FALSE)
    /\ UNCHANGED <<keys, gasPayer, backup_keys, tx_hashes, started, trustedPkh,
                   redeemable, signed, overlap, fresh, recoveryPKHs>>
    /\ UNCHANGED xframe

\* the steps of the other operations made on the same manager
WalletGasPayerResolves(p) ==
    proc[p].op \in ManagerOps /\ GasPayerResolves(p)

WalletEstimateGasResolves(p) ==
    proc[p].op \in ManagerOps /\ EstimateGasResolves(p)

WalletGasPriceResolves(p) ==
    proc[p].op \in ManagerOps /\ GasPriceResolves(p)

WalletTxAccepted(p) ==
    proc[p].op \in ManagerOps /\ TxAccepted(p)

WalletCallFails(p) ==
    proc[p].op \in ManagerOps /\ LedgerCallFails(p)

XNext ==
    \/ SetGasPayer
    \/ \E p \in Procs, op \in ManagerOps, x \in Payloads : StartManager(p, op, x)
    \/ \E p \in Procs : StartSetTen(p)
    \/ \E p \in Procs : WalletGasPayerResolves(p)
    \/ \E p \in Procs : WalletEstimateGasResolves(p)
    \/ \E p \in Procs : WalletGasPriceResolves(p)
    \/ \E p \in Procs : WalletTxAccepted(p)
    \/ \E p \in Procs : WalletCallFails(p)
    \/ \E p \in Procs, index \in 0..NBackup : StartRecover(p, index)
    \/ \E p \in Procs : RecoverGasPayerResolves(p)
    \/ \E p \in Procs : RecoveryPKHsResolves(p)
    \/ \E p \in Procs : RecoverEstimateGasResolves(p)
    \/ \E p \in Procs : RecoverGasPriceResolves(p)
    \/ \E p \in Procs : RecoverTxAccepted(p)
    \/ \E p \in Procs : RecoverCallFails(p)

SpecX == XInit /\ [][XNext]_vars

(***************************************************************************)
(* The address book of the manager                                         *)
(***************************************************************************)
\* the aliases and the addresses the calls are made with; one string is both
FriendNames == {"alice", "bob", "0xA"}

FriendAddresses == {"0xA", "0xB", "0xC"}

AliasExists == "LamportWalletManager::addFriend: alias already exists"

AddressExists == "LamportWalletManager::addFriend: an alies for this address already exists"

\* nameOrAddressToAddress(nameOrAddress): the address of the first friend of
\* that name, or the argument itself
nameOrAddressToAddress(friendList, nameOrAddress) ==
    LET named == {i \in 1..Len(friendList) : friendList[i].name = nameOrAddress}
    IN  IF named = {} THEN nameOrAddress
        ELSE friendList[CHOOSE i \in named : \A j \in named : i <= j].address

\* an addFriend that only looks at the names
addFriendNamesOnly(friendList, alias, _address) ==
    LET address == nameOrAddressToAddress(friendList, _address)
    IN  IF \E i \in 1..Len(friendList) : friendList[i].name = alias
        THEN [friends |-> friendList, err |-> AliasExists]
        ELSE [friends |-> Append(friendList, [name |-> alias, address |-> address]),
              err |-> NoError]

\* addFriend(alias, _address): the list afterwards and the error thrown
addFriend(friendList, alias, _address) ==
    LET address == nameOrAddressToAddress(friendList, _address)
    IN  IF \E i \in 1..Len(friendList) : friendList[i].name = alias
        THEN [friends |-> friendList, err |-> AliasExists]
        ELSE IF \E i \in 1..Len(friendList) : friendList[i].address = address
        THEN [friends |-> friendList, err |-> AddressExists]
        ELSE [friends |-> Append(friendList, [name |-> alias, address |-> address]),
              err |-> NoError]

\* the manager as constructed: this.state.friends = []
FInit == WInit /\ family = "manager"

\* lwm.addFriend(alias, _address)
AddFriend(alias, _address) ==
    /\ \E r \in {addFriend(friends, alias, _address)} :
           /\ friends' = r.friends
           /\ last' = [NoCall EXCEPT !.op = "addFriend", !.ret = <<alias, _address>>,
                                     !.err = r.err]
    /\ UNCHANGED <<tracker, fresh, ncalls, issued, peeked, made, got, sigcheck,
                   deriv, saved, recoveryPKHs>>
    /\ UNCHANGED <<kt, keys, gasPayer, backup_keys, tx_hashes, proc, started,
                   trustedPkh, redeemable, signed, family, burnt, overlap>>

FNext ==
    \E alias \in FriendNames, _address \in FriendNames \cup FriendAddresses :
        AddFriend(alias, _address)

SpecF == FInit /\ [][FNext]_vars


(***************************************************************************)
(* Properties of the trackers                                              *)
(***************************************************************************)
\* C1: whatever the kind of the tracker and whatever sequence of more, getOne
\* and getN calls was made on it from fresh, no key was returned by getOne or
\* getN more than once.
C1_NoKeyIssuedTwice ==
    \A i, j \in 1..Len(issued) : i # j => issued[i] # issued[j]

C1_Witness ==
    /\ tracker.kind = "M"
    /\ Len(tracker.keyTrackers) >= 2
    /\ Len(issued) >= 3

\* C2: getOne() on a Plain, Compressed or Seeded tracker whose count is 0, or
\* on a MultiSourceKeyTracker all of whose children hold no key, fails with
\* 'No keys left' and returns no key.
C2_GetOneOnEmptyFails ==
    (last.op = "getOne" /\ last.countBefore = 0 /\ last.emptyBefore)
        => (last.err = NoKeysLeft /\ last.ret = <<>>)

(***************************************************************************)
(* Properties of the wallet operations                                     *)
(***************************************************************************)
SignedOnce == \A s1, s2 \in signed : s1.key = s2.key => s1.hash = s2.hash

SelfCheckErrors == {"Invalid Lamport Signature", "Invalid signature"}

\* C3: as long as the wallet operations ran one after another, no key pair
\* was given to sign_hash for more than one message hash.
C3_SequentialOpsSignOnce == ~overlap => SignedOnce

\* C4: two operations in flight at the same time never hold the same key pair.
C4_ConcurrentOpsDistinctKeys ==
    \A p, q \in DOMAIN proc :
        (p # q /\ proc[p].key # NoKey /\ proc[q].key # NoKey)
            => proc[p].key.pri # proc[q].key.pri

\* the operation in slot p signed hash(pack(payload, nextpkh)) for the pkh of
\* the tracker's next key and submits that nextpkh
BoundToSuccessor(p) ==
    /\ kt.nxt # NoKey
    /\ proc[p].nextpkh = pkhFromPublicKey(kt.nxt.pub)
    /\ proc[p].hash = hash_b(solidityPack(<<proc[p].data, proc[p].nextpkh>>))

C6_SelfCheckBeforeDispatch ==
    \A p \in DOMAIN proc :
        /\ proc[p].sent =>
               verify_signed_hash(proc[p].hash, proc[p].sig, proc[p].key.pub)
        /\ proc[p].err \in SelfCheckErrors => proc[p].pc = "idle"

C6_Witness ==
    /\ \E p \in DOMAIN proc : proc[p].err \in SelfCheckErrors /\ ~proc[p].sent
    /\ \E s \in signed : TRUE
    /\ started = MaxOps

\* a step that consumes a signing key: the sequential tracker drops its
\* current key, or a key leaves the helpers' tracker
KeyConsumed ==
    \/ kt.cur # NoKey /\ kt'.cur # kt.cur
    \/ \E p \in DOMAIN proc :
           /\ proc[p].pc = "idle" /\ proc'[p].op \in HelperOps
           /\ count(keys') < count(keys)

\* a step in which the ledger accepts the submission of an operation
SubmissionAccepted ==
    \E p \in DOMAIN proc :
        proc[p].pc = "tx" /\ proc'[p].pc = "idle" /\ proc'[p].err = NoError

\* C7: the tracker is advanced (a signing key consumed) only in the step in
\* which the ledger accepted the submission, never before.
C7_AdvanceOnlyOnAcceptance == [][KeyConsumed => SubmissionAccepted]_vars

\* C8: a key whose signature reached the ledger in an operation that failed
\* is not given to sign_hash again.
C8_BurntKeyNeverSignsAgain ==
    [][\A s \in signed' \ signed : s.key \notin burnt]_vars

\* C9: whenever no operation is in flight, the pkh of the key the tracker
\* signs with next is the pkh the wallet contract trusts.
C9_TrackerMatchesLedger ==
    (family = "manager" /\ \A p \in DOMAIN proc : proc[p].pc = "idle")
        => pkhFromPublicKey(kt.cur.pub) = trustedPkh

\* C10: all currentKeyPair() results since the last advance() are one key
\* pair, all next-key peeks are one key pair, and after reading (current,
\* next) for an operation the tracker still holds both as current and next.
C10_PeeksAreStable ==
    /\ Cardinality(peeked.cur) <= 1
    /\ Cardinality(peeked.nxt) <= 1
    /\ last.op = "readKeyData" =>
           (tracker.cur = last.ret[1] /\ tracker.nxt = last.ret[2])
    /\ (tracker.kind = "K" /\ tracker.cur # NoKey) => peeked.cur \subseteq {tracker.cur}
    /\ (tracker.kind = "K" /\ tracker.nxt # NoKey) => peeked.nxt \subseteq {tracker.nxt}

C10_Witness ==
    /\ last.op = "readKeyData"
    /\ ncalls >= 3
    /\ peeked.cur # {} /\ peeked.nxt # {}
    /\ tracker.cur # mk_key_pair(2)

\* C11: the keys a KeyTrackerC returns through getOne / getN are, in order, the
\* keys derived from its seed for nonces 0, 1, 2, ..., and so are the keys
\* more() returned inline, for every interleaving of more, getOne and getN and
\* across persisting the tracker and rebuilding it
C11_SeededOrder ==
    tracker.kind = "C" =>
        /\ \A i \in 1..Len(got) :
               got[i] = mk_compressed_key_pair_from_seed_and_nonce(tracker.seed, i - 1)
        /\ \A i \in 1..Len(made) :
               made[i] = mk_compressed_key_pair_from_seed_and_nonce(tracker.seed, i - 1)

\* two keys were made and both retrieved, with a rebuild on the way
C11_Witness ==
    /\ tracker.kind = "C"
    /\ fresh = 2
    /\ last.op = "getOne"
    /\ Len(made) = 2
    /\ Len(got) = 2

\* C12: the keys a KeyTrackerB returns through getOne / getN are, in order and
\* with the same pri, pub, secret and pkh, the keys its more() calls returned
\* inline; the queue holds the compressed form of the keys not yet returned, in
\* the order more() made them; getN(n) with at least n keys queued returns n keys
C12_CompressedFifo ==
    tracker.kind = "B" =>
        /\ Len(got) + Len(tracker.keys) = Len(made)
        /\ \A i \in 1..Len(got) :
               /\ got[i] = made[i]
               /\ got[i].pkh = pkhFromPublicKey(made[i].pub)
        /\ \A i \in 1..Len(tracker.keys) :
               tracker.keys[i] = compressLamport(made[Len(got) + i])
        /\ (last.op = "getN" /\ last.amount <= last.countBefore)
               => (Len(last.ret) = last.amount /\ last.err = NoError)

\* more(MaxAmount) then getN(MaxAmount) on a new KeyTrackerB
C12_Witness ==
    /\ tracker.kind = "B"
    /\ ncalls = 2
    /\ last.op = "getN"
    /\ last.amount = MaxAmount
    /\ Len(got) = MaxAmount
    /\ got = made

\* C13: a KeyTrackerA is a FIFO queue: the keys returned so far followed by the
\* keys still queued are exactly the keys more() generated, in their order of
\* generation; more(n) adds n keys, all generated keys being different
C13_PlainFifo ==
    tracker.kind = "A" =>
        /\ got \o tracker.keys = made
        /\ \A i, j \in 1..Len(made) : i # j => made[i] # made[j]
        /\ last.op = "more" =>
               /\ Len(last.ret) = last.amount
               /\ count(tracker) = last.countBefore + last.amount
               /\ priOf(SubSeq(made, Len(made) - last.amount + 1, Len(made))) = last.ret

\* at least two keys were generated, one was taken from the front, some remain
C13_Witness ==
    /\ tracker.kind = "A"
    /\ Len(made) >= 2
    /\ Len(got) >= 1
    /\ tracker.keys # <<>>
    /\ last.op = "getOne"

\* C14: getN(n) on a KeyTrackerA, KeyTrackerB or KeyTrackerC that holds fewer
\* than n keys fails with 'No keys left' and returns no key
C14_GetNShortFails ==
    (tracker.kind \in {"A", "B", "C"} /\ last.op = "getN"
         /\ last.countBefore < last.amount)
        => (last.err = NoKeysLeft /\ last.ret = <<>>)

\* position of the first child that holds keys when every child before it
\* holds none; 0 when there is no such child
firstWithKeys(kts) ==
    IF \E i \in 1..Len(kts) :
           childCount(kts[i]) > 0 /\ \A j \in 1..(i - 1) : childCount(kts[j]) = 0
    THEN CHOOSE i \in 1..Len(kts) :
             childCount(kts[i]) > 0 /\ \A j \in 1..(i - 1) : childCount(kts[j]) = 0
    ELSE 0

\* C15: when the children before some child of a MultiSourceKeyTracker hold no
\* key and that child holds keys, getOne and getN are served by that child:
\* the call does not fail, returns keys, and takes them from that child only
C15_FirstChildWithKeysServes ==
    [][(/\ tracker.kind = "M"
        /\ ncalls' = ncalls + 1
        /\ last'.op \in {"getOne", "getN"}
        /\ firstWithKeys(tracker.keyTrackers) # 0)
       => LET i == firstWithKeys(tracker.keyTrackers)
          IN  /\ last'.err = NoError
              /\ last'.ret # <<>>
              /\ childCount(tracker'.keyTrackers[i]) < childCount(tracker.keyTrackers[i])
              /\ \A j \in 1..Len(tracker.keyTrackers) :
                     j # i => tracker'.keyTrackers[j] = tracker.keyTrackers[j]]_vars

\* C16: the count of a MultiSourceKeyTracker is the sum of its children's
\* counts and exhausted is true exactly when count is 0; more / moreTypeX of n
\* raise count by n, so that with no key retrieved yet count is the number of
\* keys made (a + b + c after moreTypeA(a), moreTypeB(b), moreTypeC(c))
C16_CountIsSumOfChildren ==
    tracker.kind = "M" =>
        LET kts == tracker.keyTrackers
            counts == [i \in 1..Len(kts) |-> childCount(kts[i])]
        IN  /\ count(tracker) = SumRange(counts, 1, Len(kts))
            /\ M_exhausted(tracker) <=> (count(tracker) = 0)
            /\ last.op \in {"more", "moreTypeB", "moreTypeC"} =>
                   count(tracker) = last.countBefore + last.amount
            /\ got = <<>> => count(tracker) = Len(made)

\* children of the three kinds were added to a new MultiSourceKeyTracker
C16_Witness ==
    /\ tracker.kind = "M"
    /\ Len(tracker.keyTrackers) = 3
    /\ {tracker.keyTrackers[i].kind : i \in 1..3} = {"A", "B", "C"}
    /\ got = <<>>
    /\ count(tracker) >= 3

\* the private key pri belongs to child: it is queued there (KeyTrackerA), it
\* expands from a secret queued there (KeyTrackerB), or it derives from the
\* child's seed (KeyTrackerC)
childHolds(child, pri) ==
    CASE child.kind = "A" -> \E i \in 1..Len(child.keys) : child.keys[i].pri = pri
      [] child.kind = "B" ->
             \E i \in 1..Len(child.keys) : expandSecret(child.keys[i].secret).pri = pri
      [] child.kind = "C" ->
             \E n \in 0..(MaxCalls * MaxAmount) :
                 mk_compressed_key_pair_from_seed_and_nonce(child.seed, n).pri = pri

\* C17: MultiSourceKeyTracker.getN(n) takes keys from one child only: every key
\* returned belongs to that child, no child is added or removed and every
\* other child is left as it was, also when that child holds fewer than n keys
C17_GetNNeverSpills ==
    [][(tracker.kind = "M" /\ ncalls' = ncalls + 1 /\ last'.op = "getN")
       => /\ Len(tracker'.keyTrackers) = Len(tracker.keyTrackers)
          /\ \/ /\ tracker' = tracker
                /\ last'.ret = <<>>
             \/ \E i \in 1..Len(tracker.keyTrackers) :
                    /\ \A j \in 1..Len(tracker.keyTrackers) :
                           j # i => tracker'.keyTrackers[j] = tracker.keyTrackers[j]
                    /\ \A k \in 1..Len(last'.ret) :
                           childHolds(tracker.keyTrackers[i], last'.ret[k])]_vars

\* getN(n) returned fewer than n keys although another child still holds keys
C17_Witness ==
    /\ tracker.kind = "M"
    /\ last.op = "getN"
    /\ last.ret # <<>>
    /\ Len(last.ret) < last.amount
    /\ count(tracker) > 0

\* the step appended one child of the given kind holding n keys, kept the
\* children there were, and returned the keys the new child holds
AppendsChild(kind, n) ==
    /\ Len(tracker'.keyTrackers) = Len(tracker.keyTrackers) + 1
    /\ \A i \in 1..Len(tracker.keyTrackers) :
           tracker'.keyTrackers[i] = tracker.keyTrackers[i]
    /\ \E new \in {tracker'.keyTrackers[Len(tracker'.keyTrackers)]} :
           /\ new.kind = kind
           /\ childCount(new) = n
           /\ Len(last'.ret) = n
           /\ Len(made') = Len(made) + n
           /\ \E held \in {childGetN(new, n, fresh').ret} :
                  /\ last'.ret = priOf(held)
                  /\ \A i \in 1..n : made'[Len(made) + i] = held[i]
    /\ \A i \in 1..Len(made) : made'[i] = made[i]

\* C18: MultiSourceKeyTracker.more(n) appends one new KeyTrackerA child holding
\* n keys; moreTypeB(n) and moreTypeC(n) append one new child of their kind
\* holding n keys (moreTypeA is what more runs); the children there were keep
\* their order, kind and contents, and the keys returned are those of the new child
C18_MoreAppendsOneChild ==
    [][(tracker.kind = "M" /\ ncalls' = ncalls + 1)
       => /\ last'.op = "more" => AppendsChild("A", last'.amount)
          /\ last'.op = "moreTypeB" => AppendsChild("B", last'.amount)
          /\ last'.op = "moreTypeC" => AppendsChild("C", last'.amount)]_vars

\* a child was appended behind a child of another kind
C18_Witness ==
    /\ tracker.kind = "M"
    /\ last.op = "moreTypeC"
    /\ Len(tracker.keyTrackers) >= 2
    /\ tracker.keyTrackers[1].kind = "A"
    /\ tracker.keyTrackers[Len(tracker.keyTrackers)].kind = "C"

\* C19: in a KeyTrackerC nonce is the number of keys more() generated, count
\* is that number minus the number of keys getOne / getN returned, and
\* 0 <= count <= nonce; a new tracker has nonce 0 and count 0, and more(n)
\* raises count by n
C19_SeededCounters ==
    tracker.kind = "C" =>
        /\ tracker.nonce = Len(made)
        /\ tracker.count = Len(made) - Len(got)
        /\ 0 <= tracker.count
        /\ tracker.count <= tracker.nonce
        /\ ncalls = 0 => (tracker.nonce = 0 /\ tracker.count = 0)
        /\ last.op = "more" => tracker.count = last.countBefore + last.amount

\* C20: for every key pair that generation or derivation produces and every
\* message hash h, verify_signed_hash(h, sign_hash(h, kp.pri), kp.pub) is true
C20_SignThenVerify == sigcheck.stage = "verified" => sigcheck.ok

\* a key of mk_key_pair, whose private values carry no 0x prefix, was
\* signed with and verified
C20_Witness ==
    /\ sigcheck.stage = "verified"
    /\ sigcheck.ok
    /\ ~sigcheck.kp.pri[1][1].pfx

(***************************************************************************)
(* C21, as stated: verify_signed_hash returns true only if every element   *)
(* of the signature hashes to the half of the public key the bit of the    *)
(* message hash selects, so a signature made for h is rejected for a hash  *)
(* that differs from h in a bit, and a signature with any one element      *)
(* changed is rejected.                                                    *)
(***************************************************************************)
C21_AnyAlterationRejected ==
    sigcheck.stage = "verifiedAltered" => ~sigcheck.ok

\* the half of pub[i] the i-th bit of h selects
Selected(pub, h, i) == pub[i][msg_hash_bin(h)[i] + 1]

\* the positions at which the bits of two message hashes differ
BitsDiffering(h1, h2) ==
    {i \in 1..NBits : msg_hash_bin(h1)[i] # msg_hash_bin(h2)[i]}

(***************************************************************************)
(* C21, amended: verify_signed_hash returns true only if for every index   *)
(* i the hash of the bytes of signature[i] equals pub[i][bit_i of the      *)
(* message hash]; a signature made for h is rejected for every hash whose  *)
(* bits differ from those of h, and a signature in which one element is    *)
(* replaced by a string of other bytes is rejected; a signature in which   *)
(* an element only gained or lost its 0x prefix is accepted as before.     *)
(***************************************************************************)
C21_AlteredBytesRejected ==
    /\ (sigcheck.stage \in {"verified", "verifiedAltered"} /\ sigcheck.ok)
          => \A i \in 1..NBits :
                 hash_b([v |-> sigcheck.sigv[i].v, pfx |-> TRUE])
                     = Selected(sigcheck.kp.pub, sigcheck.hv, i)
    /\ sigcheck.stage = "verifiedAltered"
          => /\ sigcheck.alt \in {"hash", "element"} => ~sigcheck.ok
             /\ sigcheck.alt = "prefix" => sigcheck.ok

\* a signature was verified against a hash that differs in exactly one bit,
\* and was rejected
C21_Witness ==
    /\ sigcheck.stage = "verifiedAltered"
    /\ sigcheck.alt = "hash"
    /\ Cardinality(BitsDiffering(sigcheck.h, sigcheck.hv)) = 1
    /\ ~sigcheck.ok

(***************************************************************************)
(* C22: sign_hash throws and reveals nothing when the private key does not *)
(* have exactly NBits pairs; otherwise element i of the signature is one   *)
(* of the two halves of pri[i], the second one exactly when bit i of the   *)
(* message hash is set, the bits being weighted most significant first.    *)
(***************************************************************************)
C22_SignHashSelectsByBit ==
    sigcheck.stage \in {"signed", "threw"} =>
        LET pri == sigcheck.kp.pri
            sig == sigcheck.sig
        IN  IF Len(pri) # NBits
            THEN sigcheck.stage = "threw" /\ sig = <<>>
            ELSE /\ sigcheck.stage = "signed"
                 /\ Len(sig) = NBits
                 /\ \A i \in 1..NBits : sig[i] \in {pri[i][1], pri[i][2]}
                 /\ SumRange([i \in 1..NBits |->
                                 IF sig[i] = pri[i][2] THEN Pow2(NBits - i) ELSE 0],
                             1, NBits) = HexValue(sigcheck.h)

\* a key one pair short was refused, nothing was revealed
C22_Witness ==
    /\ sigcheck.stage = "threw"
    /\ Len(sigcheck.kp.pri) = NBits - 1
    /\ sigcheck.sig = <<>>

\* the pkh the expansion of mk_compressed_key_pair gives for a secret
RecomputedPkh(secret) == expandSecret(secret).pkh

\* the records getOne / getN takes from the front of the queue in the step
Popped ==
    SubSeq(tracker.keys, 1,
           Min(IF last'.op = "getOne" THEN 1 ELSE last'.amount, Len(tracker.keys)))

(***************************************************************************)
(* C23: getOne / getN of the compressed tracker fail with 'Public Key Hash *)
(* Does Not Match Secret' and return no key whenever the pkh recomputed    *)
(* from the secret of a popped record differs from the pkh the record      *)
(* stores; when every popped record is as more() stored it, the call       *)
(* returns the expanded key of each record, in order.                      *)
(***************************************************************************)
C23_MismatchGuard ==
    [][(tracker.kind = "B" /\ ncalls' = ncalls + 1 /\ last'.op \in {"getOne", "getN"})
          => /\ (\E i \in 1..Len(Popped) : RecomputedPkh(Popped[i].secret) # Popped[i].pkh)
                   => (last'.err = HashMismatch /\ last'.ret = <<>>)
             /\ (Popped # <<>> /\ \A i \in 1..Len(Popped) :
                     \E k \in 1..fresh : Popped[i] = compressLamport(mk_compressed_key_pair(k)))
                   => /\ last'.err = NoError
                      /\ Len(got') = Len(got) + Len(Popped)
                      /\ \A i \in 1..Len(Popped) :
                             \E key \in {got'[Len(got) + i]} :
                                 /\ compressLamport(key) = Popped[i]
                                 /\ pkhFromPublicKey(key.pub) = Popped[i].pkh
                                 /\ key.pub = pubFromPri(key.pri)
                                 /\ last'.ret[i] = key.pri]_vars

\* getN took an intact record and a damaged one and failed without a key
C23_Witness ==
    /\ tracker.kind = "B"
    /\ last.op = "getN" /\ last.amount = 2 /\ last.countBefore >= 2
    /\ last.err = HashMismatch
    /\ last.ret = <<>>
    /\ made # <<>>

(***************************************************************************)
(* C24: compression round-trips: uncompressLamport(compressLamport(k)),    *)
(* for k the key expanded from a secret, passes the pkh check and yields   *)
(* the pri, pub, secret and pkh of k.                                      *)
(***************************************************************************)
C24_CompressRoundTrip ==
    /\ deriv.restored # <<>> =>
           /\ deriv.restored[1].ok
           /\ deriv.restored[1].key = deriv.expanded[1]
           /\ deriv.rec[1] = [secret |-> deriv.secret, pkh |-> deriv.expanded[1].pkh]
    /\ deriv.rederived # <<>> =>
           /\ deriv.rederived[1].ok
           /\ deriv.rederived[1].key = deriv.derived[1]

\* a secret was expanded, compressed and re-expanded
C24_Witness ==
    /\ ~deriv.seeded
    /\ deriv.restored # <<>>
    /\ deriv.restored[1].key.pri = deriv.expanded[1].pri
    /\ Len(deriv.expanded[1].pri) = NBits

\* the key pair of a secret, written out: private pair i (from 0) is
\* (Hash(Pack(secret, 2i)), Hash(Pack(secret, 2i+1)))
KeyOfSecret(secret) ==
    LET pri == [i \in 1..NBits |->
                   <<hash_b(solidityPack(<<secret, Word(2 * (i - 1))>>)),
                     hash_b(solidityPack(<<secret, Word(2 * (i - 1) + 1)>>))>>]
        pub == [i \in 1..NBits |-> <<hash_b(pri[i][1]), hash_b(pri[i][2])>>]
    IN  [pri |-> pri, pub |-> pub, secret |-> secret, pkh |-> pkhFromPublicKey(pub)]

(***************************************************************************)
(* C28: the three copies of the derivation agree: for one secret, the      *)
(* expansion of mk_compressed_key_pair, uncompressLamport and              *)
(* mk_compressed_key_pair_from_seed_and_nonce (whose secret is             *)
(* Hash(Pack(seed, nonce))) each produce the key pair whose private pair i *)
(* is (Hash(Pack(secret, 2i)), Hash(Pack(secret, 2i+1))).                  *)
(***************************************************************************)
C28_DerivationCopiesAgree ==
    /\ deriv.expanded # <<>> => deriv.expanded[1] = KeyOfSecret(deriv.secret)
    /\ deriv.restored # <<>> => deriv.restored[1].key = KeyOfSecret(deriv.secret)
    /\ deriv.derived # <<>> =>
           /\ deriv.secret = hash_b(solidityPack(<<deriv.seed, Word(deriv.nonce)>>))
           /\ deriv.derived[1] = KeyOfSecret(deriv.secret)
    /\ deriv.rederived # <<>> => deriv.rederived[1].key = KeyOfSecret(deriv.secret)
    /\ (deriv.expanded # <<>> /\ deriv.derived # <<>>) =>
           deriv.expanded[1] = deriv.derived[1]

\* all three copies ran on the secret of one (seed, nonce)
C28_Witness ==
    /\ deriv.seeded /\ deriv.nonce > 0
    /\ deriv.expanded # <<>>
    /\ deriv.restored # <<>>
    /\ deriv.derived # <<>>
    /\ deriv.derived[1] = deriv.restored[1].key

(***************************************************************************)
(* C27: more(n) of the seeded tracker returns the keys derived from        *)
(* (seed, old nonce), ..., (seed, old nonce + n - 1) in that order, and    *)
(* raises nonce and the count of keys left by n each; the seed is the one  *)
(* drawn at construction after every more, getOne and getN.  (nonce is the *)
(* number of keys more() has returned so far, hence old nonce is that      *)
(* number less n.)                                                         *)
(***************************************************************************)
C27_SeededMoreFrame ==
    tracker.kind = "C" =>
        /\ tracker.seed = GENERATE_INITIAL_SECRET(1)
        /\ tracker.nonce = Len(made)
        /\ last.op = "more" =>
               LET n == last.amount
                   oldNonce == tracker.nonce - n
               IN  /\ Len(last.ret) = n
                   /\ tracker.count = last.countBefore + n
                   /\ oldNonce >= 0
                   /\ \A i \in 1..n :
                          /\ made[oldNonce + i] = KeyOfSecret(
                                 hash_b(solidityPack(<<tracker.seed, Word(oldNonce + i - 1)>>)))
                          /\ last.ret[i] = made[oldNonce + i].pri

\* a second more(MaxAmount) on a seeded tracker, after a getOne
C27_Witness ==
    /\ tracker.kind = "C"
    /\ last.op = "more" /\ last.amount = MaxAmount
    /\ tracker.nonce > MaxAmount
    /\ got # <<>>

(***************************************************************************)
(* C30: a MultiSourceKeyTracker whose count is k > 0 delivers exactly k    *)
(* keys: a getOne() called while count > 0 succeeds, returns one key and   *)
(* lowers count by exactly 1, whatever the children are; getOne() fails    *)
(* with 'No keys left' only when count is 0.                               *)
(***************************************************************************)
C30_DeliversCountKeys ==
    (tracker.kind = "M" /\ last.op = "getOne") =>
        IF last.countBefore > 0
        THEN /\ last.err = NoError
             /\ Len(last.ret) = 1
             /\ M_count(tracker) = last.countBefore - 1
        ELSE /\ last.err = NoKeysLeft
             /\ last.ret = <<>>

\* the keys delivered since the record was written out
DeliveredSince == SeqToSet(SubSeq(got, saved.at + 1, Len(got)))

(***************************************************************************)
(* C26: a seeded tracker rebuilt from a record that is stale, that is      *)
(* written out before keys were delivered, hands those keys out again: the *)
(* j-th key of the first getOne / getN after the rebuild is the key of     *)
(* nonce (saved nonce - saved count) + j - 1, which is one of the keys     *)
(* delivered since the record was written, for as many keys as were        *)
(* delivered since.                                                        *)
(***************************************************************************)
C26_StaleRecordReissues ==
    [][(tracker.kind = "C" /\ last.op = "restore" /\ ncalls' = ncalls + 1
           /\ last'.op \in {"getOne", "getN"})
          => \A j \in 1..Min(last'.amount, Cardinality(DeliveredSince)) :
                 /\ got'[Len(got) + j] \in DeliveredSince
                 /\ got'[Len(got) + j] =
                        mk_compressed_key_pair_from_seed_and_nonce(
                            saved.rec[1], saved.rec[2] - saved.rec[3] + j - 1)]_vars

\* the key delivered after the record was written was delivered again after
\* the rebuild
C26_Witness ==
    /\ tracker.kind = "C"
    /\ last.op = "getOne"
    /\ saved.rec # <<>>
    /\ saved.rec[3] > 0
    /\ Len(got) = saved.at + 2
    /\ got[saved.at + 1] = got[saved.at + 2]

(***************************************************************************)
(* C29: no recovery key pair of backup_keys signs more than one message:   *)
(* whatever call_recover invocations run, with whatever index, all the     *)
(* signatures made with one recovery key are over one and the same hash.   *)
(***************************************************************************)
C29_RecoveryKeySignsOnce ==
    \A i \in 1..Len(backup_keys) :
        \A s1, s2 \in signed :
            (s1.key = backup_keys[i].pri /\ s2.key = backup_keys[i].pri)
                => s1.hash = s2.hash

(***************************************************************************)
(* C31: in every helpers operation the isRedeemable check on the popped    *)
(* key completes before signing: while the check is pending nothing was    *)
(* signed with the key, and when the contract reports the key as not       *)
(* redeemable the operation throws 'Invalid signing key', nothing is       *)
(* signed and nothing is submitted.                                        *)
(***************************************************************************)
C31_RedeemableCheckedBeforeSigning ==
    [][\A p \in Procs :
          /\ proc[p].pc = "isRedeemable" =>
                 /\ ~proc[p].sent
                 /\ \A s \in signed : s.key # proc[p].key.pri
          /\ (/\ proc[p].pc = "isRedeemable" /\ proc'[p] # proc[p]
              /\ proc'[p].err # "call failed"
              /\ pkhFromPublicKey(proc[p].key.pub) \notin redeemable)
                 => /\ proc'[p].pc = "idle"
                    /\ proc'[p].err = "Invalid signing key"
                    /\ signed' = signed
                    /\ redeemable' = redeemable
                    /\ keys' = keys]_vars

\* an operation threw 'Invalid signing key'; nothing was ever signed
C31_Witness ==
    /\ family = "helpers"
    /\ \E p \in Procs : proc[p].err = "Invalid signing key" /\ proc[p].pc = "idle"
    /\ signed = {}
    /\ count(keys) = InitKeys - 1

\* slot p makes a step from program position pc
StepsFrom(p, pcs) == proc[p].pc \in pcs /\ proc'[p] # proc[p]

(***************************************************************************)
(* C32, as stated: every helpers operation takes exactly one signing key   *)
(* from the tracker with getOne in the step that starts it, before its     *)
(* first await, and the key is never put back: no later step of the        *)
(* operation, whether it goes on or throws, changes the tracker, except    *)
(* that addNKeys adds its n new keys once the key check passed.            *)
(***************************************************************************)
C32_EveryOperationPopsOneKey ==
    [][\A p \in Procs :
          /\ StepsFrom(p, {"idle"}) => count(keys') = count(keys) - 1
          /\ StepsFrom(p, {"isRedeemable"})
                 => IF proc[p].op = "addNKeys"
                       /\ proc'[p].err \notin {"Invalid signing key", "call failed"}
                    THEN count(keys') = count(keys) + proc[p].x
                    ELSE keys' = keys
          /\ StepsFrom(p, {"estimateGas", "getGasPrice", "tx"}) => keys' = keys]_vars

(***************************************************************************)
(* C32, amended: a helpers operation started on a tracker that holds a key *)
(* takes exactly one signing key, the front one, with getOne in the step   *)
(* that starts it, and the key is never put back, as above; started on an  *)
(* empty plain or compressed tracker, getOne throws 'No keys left', the    *)
(* operation ends there and the tracker is unchanged.                      *)
(***************************************************************************)
C32_OneKeyPoppedPerOperation ==
    [][\A p \in Procs :
          /\ (StepsFrom(p, {"idle"}) /\ count(keys) > 0)
                 => /\ count(keys') = count(keys) - 1
                    /\ proc'[p].pc = "isRedeemable" =>
                           pkhFromPublicKey(proc'[p].key.pub) = pkhOfNth(keys, 1)
          /\ (StepsFrom(p, {"idle"}) /\ count(keys) = 0 /\ keys.kind \in {"A", "B"})
                 => /\ proc'[p].pc = "idle" /\ proc'[p].err = NoKeysLeft
                    /\ keys' = keys
          /\ StepsFrom(p, {"isRedeemable"})
                 => IF proc[p].op = "addNKeys"
                       /\ proc'[p].err \notin {"Invalid signing key", "call failed"}
                    THEN count(keys') = count(keys) + proc[p].x
                    ELSE keys' = keys
          /\ StepsFrom(p, {"estimateGas", "getGasPrice", "tx"}) => keys' = keys]_vars

\* one operation failed its self-check, one was rejected by the ledger; each
\* took one key
C32_Witness ==
    /\ family = "helpers"
    /\ started = 2
    /\ \E p, q \in Procs :
           /\ proc[p].pc = "idle" /\ proc[p].err = "Invalid signature"
           /\ proc[q].pc = "idle" /\ proc[q].err = "call failed" /\ burnt # {}
    /\ count(keys) = InitKeys - 2

\* the pkhs of a sequence of key pairs
pkhSet(keyPairs) == {pkhFromPublicKey(keyPairs[i].pub) : i \in 1..Len(keyPairs)}

(***************************************************************************)
(* C33: addNKeys pops its signing key before it generates the n new keys,  *)
(* so the signing key is not among the keys being registered, and the new  *)
(* keys are in the tracker before the ledger is called: in the step that   *)
(* generates them the tracker grows by n and holds them, and none is       *)
(* redeemable yet; when gas estimation or addPublicKeyHashes then fails,   *)
(* the tracker and the contract's set are left as they are, so the tracker *)
(* keeps keys whose hashes were not registered.                            *)
(***************************************************************************)
C33_AddNKeysKeepsUnregisteredKeys ==
    [][\A p \in Procs :
          /\ (StepsFrom(p, {"isRedeemable"}) /\ proc[p].op = "addNKeys"
                 /\ proc'[p].pc = "estimateGas")
                 => /\ Len(proc'[p].newKeys) = proc[p].x
                    /\ pkhFromPublicKey(proc[p].key.pub) \notin pkhSet(proc'[p].newKeys)
                    /\ pkhFromPublicKey(proc[p].key.pub) \notin pkhsOf(keys)
                    /\ count(keys') = count(keys) + proc[p].x
                    /\ pkhSet(proc'[p].newKeys) \subseteq pkhsOf(keys')
                    /\ pkhSet(proc'[p].newKeys) \cap (pkhsOf(keys) \cup redeemable') = {}
          /\ (StepsFrom(p, {"estimateGas", "getGasPrice", "tx"})
                 /\ proc[p].op = "addNKeys" /\ proc'[p].err = "call failed")
                 => /\ keys' = keys
                    /\ redeemable' = redeemable
                    /\ pkhSet(proc[p].newKeys) \cap redeemable' = {}]_vars

\* an addNKeys failed at the ledger: the tracker holds as many keys as at the
\* start again and one is not redeemable, although the contract held them all
C33_Witness ==
    /\ family = "helpers"
    /\ started = 1
    /\ \E p \in Procs : proc[p].pc = "idle" /\ proc[p].err = "call failed"
    /\ burnt # {}
    /\ count(keys) = InitKeys
    /\ Cardinality(redeemable) = InitKeys
    /\ ~(pkhsOf(keys) \subseteq redeemable)

(***************************************************************************)
(* C34: call_recover replaces state.kt by the new tracker k2 only in the   *)
(* step in which the recover transaction call returned, where it also      *)
(* appends the transaction hash; every step in which call_recover throws   *)
(* (no gas payer, no recovery key pair found, failed self-check, a ledger  *)
(* call that throws) leaves state.kt, backup_keys and tx_hashes unchanged, *)
(* and so does every step in between.                                      *)
(***************************************************************************)
C34_TrackerReplacedOnlyOnReturn ==
    [][\A p \in Procs :
          (proc[p].op = "call_recover" /\ proc'[p] # proc[p])
              => IF proc[p].pc = "tx" /\ proc'[p].err = NoError
                 THEN /\ kt' = proc[p].k2
                      /\ K_pkh(kt') = proc[p].nextpkh
                      /\ tx_hashes' = Append(tx_hashes, proc[p].id)
                      /\ backup_keys' = backup_keys
                 ELSE /\ kt' = kt
                      /\ tx_hashes' = tx_hashes
                      /\ backup_keys' = backup_keys]_vars

\* one call_recover failed at the ledger after signing, another returned and
\* installed its tracker
C34_Witness ==
    /\ started = 2
    /\ burnt # {}
    /\ \E p \in Procs : proc[p].pc = "idle" /\ proc[p].err = "call failed"
    /\ Len(tx_hashes) = 2
    /\ K_pkh(kt) = trustedPkh
    /\ \A i \in 1..Len(backup_keys) : kt.cur # backup_keys[i]

(***************************************************************************)
(* C35: backup_keys changes only in the step in which the                  *)
(* setTenRecoveryPKHs transaction call of call_setTenRecoveryPKHs          *)
(* returned; it then becomes exactly the key pairs that call generated     *)
(* (nothing of the previous list is kept), and their hashes are the        *)
(* payload the ledger accepted.  Every other step, in particular every     *)
(* step in which an operation throws, leaves backup_keys unchanged.        *)
(***************************************************************************)
C35_BackupKeysStoredOnReturn ==
    [][/\ backup_keys' # backup_keys
          => \E p \in Procs :
                /\ proc[p].op = "call_setTenRecoveryPKHs" /\ proc[p].pc = "tx"
                /\ proc'[p] = Idle(NoError)
       /\ \A p \in Procs :
            (proc[p].op = "call_setTenRecoveryPKHs" /\ proc'[p] # proc[p])
               => IF proc[p].pc = "tx" /\ proc'[p].err = NoError
                  THEN /\ backup_keys' = proc[p].newKeys
                       /\ Len(backup_keys') = NBackup
                       /\ proc[p].data =
                             solidityPack([i \in 1..NBackup |->
                                 pkhFromPublicKey(backup_keys'[i].pub)])
                       /\ walletAccepts(trustedPkh, proc[p].data, proc[p].key.pub,
                                        proc[p].nextpkh, proc[p].sig)
                  ELSE backup_keys' = backup_keys]_vars

\* after an accepted call_recover a second call_setTenRecoveryPKHs was accepted
\* and has replaced the keys of the first
C35_Witness ==
    /\ family = "manager"
    /\ Len(tx_hashes) = 3
    /\ Len(backup_keys) = NBackup
    /\ \A i \in 1..NBackup : backup_keys[i] # mk_key_pair(InitKeys + 2 + i)
    /\ recoveryPKHs = [i \in 1..NBackup |-> pkhFromPublicKey(backup_keys[i].pub)]
    /\ \A p \in Procs : proc[p].pc = "idle"

\* a call_setTenRecoveryPKHs signed and then failed at the ledger, and the
\* stored keys are still those of the accepted one
C35_FailureWitness ==
    /\ family = "manager"
    /\ started = 1
    /\ Len(tx_hashes) = 1
    /\ backup_keys = [i \in 1..NBackup |-> mk_key_pair(InitKeys + 2 + i)]
    /\ \E p \in Procs : proc[p].pc = "idle" /\ proc[p].err = "call failed"
    /\ burnt # {}
    /\ fresh > InitKeys + 2 + NBackup + 1

(***************************************************************************)
(* C36: when getOne of the compressed tracker fails with the hash-mismatch *)
(* error the front record is gone from the queue (count is one lower), and *)
(* a getOne that follows pops the record that stood behind it; when getN   *)
(* hits a mismatching record, every record it popped (amount of them, or   *)
(* all when fewer are queued) is gone and no key is returned.              *)
(***************************************************************************)
C36_MismatchedRecordsRemoved ==
    [][(tracker.kind = "B" /\ ncalls' = ncalls + 1 /\ last'.op \in {"getOne", "getN"})
          => /\ last'.err = HashMismatch
                   => /\ Len(Popped) >= 1
                      /\ Len(Popped) = IF last'.op = "getOne" THEN 1
                                       ELSE Min(last'.amount, count(tracker))
                      /\ tracker'.keys = SubSeq(tracker.keys, Len(Popped) + 1,
                                                Len(tracker.keys))
                      /\ count(tracker') = count(tracker) - Len(Popped)
                      /\ last'.ret = <<>>
                      /\ got' = got
             /\ (last.op = "getOne" /\ last.err = HashMismatch /\ last'.op = "getOne"
                 /\ tracker.keys # <<>>)
                   => LET following == Len(made) - last.countBefore + 2
                      IN  /\ count(tracker) = last.countBefore - 1
                          /\ Popped = <<tracker.keys[1]>>
                          /\ tracker.keys[1] \in StoredRecords(following)
                          /\ tracker.keys[1] = compressLamport(made[following])
                                => /\ last'.err = NoError
                                   /\ got' = Append(got, made[following])]_vars

\* getOne failed on a mismatching first record, the next getOne returned the
\* key of the second record, and a getN(2) then hit a mismatching third record
C36_Witness ==
    /\ tracker.kind = "B"
    /\ Len(made) = 3 /\ ncalls = 3
    /\ got = <<made[2]>>
    /\ last.op = "getN" /\ last.amount = 2 /\ last.countBefore = 1
    /\ last.err = HashMismatch
    /\ count(tracker) = 0

(***************************************************************************)
(* C37: tx_hashes is append-only.  A step changes it only when the         *)
(* transaction call of a manager operation returned, and then appends      *)
(* exactly the one hash of that transaction; an operation that ends by     *)
(* throwing appends none.  topTxHash is the hash appended last, and null   *)
(* (written <<>>) exactly as long as nothing was appended.                 *)
(***************************************************************************)
C37_TxHashesAppendOnly ==
    [][/\ tx_hashes' # tx_hashes
          => \E p \in Procs :
                /\ proc[p].pc = "tx" /\ proc'[p] = Idle(NoError)
                /\ tx_hashes' = Append(tx_hashes, proc[p].id)
                /\ topTxHash(tx_hashes') = <<proc[p].id>>
       /\ tx_hashes' = tx_hashes => topTxHash(tx_hashes') = topTxHash(tx_hashes)
       /\ \A p \in Procs :
            (proc'[p] # proc[p] /\ proc'[p].pc = "idle")
               => IF proc'[p].err = NoError
                  THEN /\ Len(tx_hashes') = Len(tx_hashes) + 1
                       /\ SubSeq(tx_hashes', 1, Len(tx_hashes)) = tx_hashes
                  ELSE tx_hashes' = tx_hashes
       /\ (topTxHash(tx_hashes) = <<>>) = (tx_hashes = <<>>)
       /\ (topTxHash(tx_hashes') = <<>>) = (tx_hashes' = <<>>)]_vars

\* on a manager that held one hash two further transactions returned one after
\* the other; the top hash is that of the last
C37_Witness ==
    /\ family = "manager"
    /\ tx_hashes = <<0, 1, 2>>
    /\ topTxHash(tx_hashes) = <<2>>
    /\ started = 2
    /\ \A p \in Procs : proc[p].pc = "idle"

\* no two entries of the list share a name, and no two share an address
FriendsDistinct(friendList) ==
    \A i, j \in 1..Len(friendList) :
        i # j => /\ friendList[i].name # friendList[j].name
                 /\ friendList[i].address # friendList[j].address

(***************************************************************************)
(* C38: before and after every addFriend call no two entries of friends    *)
(* share a name and no two share an address.  A call whose alias is        *)
(* already a name of the list, or whose address (the address of the friend *)
(* that _address names, else _address itself) is already in the list,      *)
(* throws and leaves friends unchanged; every other call appends the       *)
(* entry of the alias and that address.                                    *)
(***************************************************************************)
C38_FriendsStayDistinct ==
    [][last'.op = "addFriend" =>
         LET alias == last'.ret[1]
             address == nameOrAddressToAddress(friends, last'.ret[2])
             clash == \E i \in 1..Len(friends) :
                          friends[i].name = alias \/ friends[i].address = address
         IN  /\ FriendsDistinct(friends)
             /\ FriendsDistinct(friends')
             /\ clash => (last'.err # NoError /\ friends' = friends)
             /\ ~clash => /\ last'.err = NoError
                          /\ friends' = Append(friends, [name |-> alias,
                                                         address |-> address])]_vars

\* the list holds two friends and a call that gave an existing friend's name as
\* the address of a new alias was refused
C38_Witness ==
    /\ Len(friends) = 2
    /\ last.op = "addFriend"
    /\ last.err = AddressExists
    /\ \E i \in 1..Len(friends) : friends[i].name = last.ret[2]
    /\ \A i \in 1..Len(friends) : friends[i].name # last.ret[1]

====
